---- MODULE Spec2Model ----
(***************************************************************************)
(* Model of the unified vector-store client, src/src/codex_vector/client.py *)
(*                                                                         *)
(* CodexVectorClient.upsert is modelled statement group by statement       *)
(* group: validation, collection resolution, ID preparation, existence      *)
(* check, filter decision, and the batch loop (embed, write).  The backend  *)
(* adapter is the store behind it: a set of collections and, for the       *)
(* collection, a map from document ID to the stored document and metadata.  *)
(* Every adapter request either returns or raises; a raised request leaves  *)
(* the store as it was.                                                     *)
(*                                                                         *)
(* _ChromaBackend._request (the retry loop) and _ChromaBackend.existing_ids *)
(* (the chunk loop) have their own specifications, SpecRequest and          *)
(* SpecExisting, over their own variables.  So have the embedding provider  *)
(* of a client constructed with any dimension (SpecEmbed), status of the    *)
(* adapters (SpecStatus) and _build_doc_id as a function (SpecIds).         *)
(*                                                                         *)
(* Document IDs.  _stable_doc_id hashes namespace + content with blake2b.   *)
(* The model keeps the hash input in structured form and takes the hash to  *)
(* be collision free on the inputs of the model: an ID is the record of the *)
(* namespace and the content that were hashed.  The namespace is either     *)
(* the canonical JSON of a metadata map (sorted keys, so the map itself),   *)
(* a plain string, or absent.                                               *)
(***************************************************************************)
EXTENDS Integers, Sequences, FiniteSets, TLC

----------------------------------------------------------------------------
(* Bounds of the model *)

MaxDocs == 3
MaxCalls == 2
MaxBatch == 2
MaxCheckBatch == 3
MaxLimit == 2
MaxPage == 2
MaxRetries == 3
MaxDelay == 2
MaxIds == 7
MaxEmbeds == 3
MaxColls == 3
MaxCount == 2

Contents == {"alpha", "beta"}
Names == {"demo"}
Sources == {"example"}

----------------------------------------------------------------------------
(* Maps (python dict) and sequences *)

EmptyMap == [x \in {} |-> TRUE]
Put(m, k, v) == [x \in DOMAIN m \cup {k} |-> IF x = k THEN v ELSE m[x]]
Has(m, k) == k \in DOMAIN m
Without(m, k) == [x \in DOMAIN m \ {k} |-> m[x]]
SetDefault(m, k, v) == IF Has(m, k) THEN m ELSE Put(m, k, v)
Update(m, n) == [x \in DOMAIN m \cup DOMAIN n |-> IF x \in DOMAIN n THEN n[x] ELSE m[x]]

Range(s) == {s[i] : i \in DOMAIN s}
Min(a, b) == IF a < b THEN a ELSE b
Max(a, b) == IF a > b THEN a ELSE b

(* mutant of Slice: the upper end of the slice is not applied *)
Slice_Unbounded(items, from, size) == SubSeq(items, from + 1, Len(items))

(* python slice items[from : from + size], with a 0-based start *)
Slice(items, from, size) ==
  SubSeq(items, from + 1, Min(from + size, Len(items)))

(* _chunk_items: the consecutive slices of the given size *)
RECURSIVE ChunksFrom(_, _, _)
ChunksFrom(items, size, index) ==
  IF index >= Len(items) THEN <<>>
  ELSE <<Slice(items, index, size)>> \o ChunksFrom(items, size, index + size)

(* mutant of chunk_items: one chunk per item *)
chunk_items_PerId(items, size) == ChunksFrom(items, 1, 0)

chunk_items(items, size) == ChunksFrom(items, size, 0)

----------------------------------------------------------------------------
(* Document identity *)

NoNamespace == [kind |-> "none", str |-> "", meta |-> EmptyMap]
StrNamespace(s) == [kind |-> "str", str |-> s, meta |-> EmptyMap]
JsonNamespace(m) == [kind |-> "json", str |-> "", meta |-> m]

TextContent(s) == [kind |-> "text", str |-> s, fields |-> <<>>, meta |-> EmptyMap]
(* mutant of KeyContent: every metadata key goes into the key *)
KeyContent_Whole(fields, m) ==
  [kind |-> "key", str |-> "", fields |-> fields, meta |-> m]

(* lines 730-740: the field=value components of the configured fields *)
KeyContent(fields, m) ==
  [kind |-> "key", str |-> "", fields |-> fields,
   meta |-> [f \in Range(fields) |-> m[f]]]

(* a doc_id value of the caller that is not a string *)
NumberId(n) == [kind |-> "int", ns |-> NoNamespace, content |-> TextContent(n)]

(* a doc_id string the caller supplied *)
RawId(s) == [kind |-> "raw", ns |-> NoNamespace, content |-> TextContent(s)]
IsNonEmptyStr(id) == id.kind = "raw" /\ id.content.str # ""

(* mutant of stable_doc_id: the content is not hashed *)
stable_doc_id_Blank(content, namespace) ==
  [kind |-> "doc", ns |-> namespace, content |-> TextContent("")]

(* "doc-" + blake2b(namespace + content); `if namespace:` skips None and "" *)
stable_doc_id(content, namespace) ==
  [kind |-> "doc",
   ns |-> IF namespace.kind = "str" /\ namespace.str = "" THEN NoNamespace ELSE namespace,
   content |-> content]

(* mutant of doc_id_from_fields: the configured fields are not used *)
doc_id_from_fields_Off(fields, metadata) == [some |-> FALSE, id |-> RawId("")]

doc_id_from_fields(fields, metadata) ==
  IF fields = <<>> THEN [some |-> FALSE, id |-> RawId("")]
  ELSE IF \E i \in DOMAIN fields : ~Has(metadata, fields[i])
       THEN [some |-> FALSE, id |-> RawId("")]
       ELSE [some |-> TRUE,
             id |-> stable_doc_id(KeyContent(fields, metadata), StrNamespace("metadata"))]

build_doc_id(fields, content, metadata, metadata_source) ==
  LET candidate == doc_id_from_fields(fields, metadata)
      namespace_meta == Without(metadata, "doc_id")
      stable_namespace ==
        IF DOMAIN namespace_meta # {} THEN JsonNamespace(namespace_meta)
        ELSE StrNamespace(metadata_source)
  IN IF candidate.some THEN candidate.id
     ELSE stable_doc_id(TextContent(content), stable_namespace)

----------------------------------------------------------------------------
(* upsert, lines 589-611: metadata and ID of the document at 0-based idx *)

NoItems == [some |-> FALSE, items |-> <<>>]
SomeItems(items) == [some |-> TRUE, items |-> items]

(* mutant of with_position: every document gets position 0 *)
with_position_Zero(m, idx) == SetDefault(m, "position", 0)

(* line 601: base_meta.setdefault("position", idx) *)
with_position(m, idx) == SetDefault(m, "position", idx)

base_meta_of(idx, metadata_source, metadata_items) ==
  LET m0 == IF metadata_items.some /\ metadata_items.items # <<>>
            THEN Update(EmptyMap, metadata_items.items[idx + 1])
            ELSE IF metadata_source # "" THEN [source |-> metadata_source]
            ELSE EmptyMap
      m1 == IF metadata_source # "" /\ ~Has(m0, "source")
            THEN Put(m0, "source", metadata_source) ELSE m0
  IN with_position(m1, idx)

(* mutant of supplied_doc_id: a supplied doc_id is never taken *)
supplied_doc_id_Never(base_meta) == FALSE

(* lines 603-604: base_meta.get("doc_id") is a non-empty string *)
supplied_doc_id(base_meta) ==
  Has(base_meta, "doc_id") /\ IsNonEmptyStr(base_meta["doc_id"])

prepared_of(fields, idx, doc, metadata_source, metadata_items) ==
  LET base_meta == base_meta_of(idx, metadata_source, metadata_items)
      supplied == supplied_doc_id(base_meta)
      doc_id == IF supplied THEN base_meta["doc_id"]
                ELSE build_doc_id(fields, doc, base_meta, metadata_source)
  IN [meta |-> IF supplied THEN base_meta ELSE SetDefault(base_meta, "doc_id", doc_id),
      id |-> doc_id]

----------------------------------------------------------------------------
(* Inputs of the model *)

Other(c) == IF c = "alpha" THEN "beta" ELSE "alpha"

(* c, Other(c), c, ...: k documents *)
Alt(c, k) == [i \in 1..k |-> IF i % 2 = 1 THEN c ELSE Other(c)]

DocLists ==
  {Alt(c, k) : c \in Contents, k \in 0..MaxDocs}
    \cup {<<"">> \o Alt(c, k) : c \in Contents, k \in 0..1}

NonEmpty(documents) == SelectSeq(documents, LAMBDA doc : doc # "")

(* metadata_items the caller may pass for the given documents: none, one   *)
(* map per non-empty document (empty maps, or maps that all carry position *)
(* 0), or a list that is one entry too long, or an empty list              *)
ItemLists(documents) ==
  LET n == Len(NonEmpty(documents))
  IN {NoItems,
      SomeItems([i \in 1..n |-> EmptyMap]),
      SomeItems([i \in 1..n |-> [position |-> 0]]),
      SomeItems([i \in 1..(n + 1) |-> EmptyMap]),
      SomeItems(<<>>)}

ArgSet ==
  {[name_or_id |-> name, documents |-> documents, metadata_source |-> src,
    metadata_items |-> items, create_collection |-> create] :
     name \in Names, documents \in DocLists, src \in {""} \cup Sources,
     items \in UNION {ItemLists(d) : d \in DocLists}, create \in BOOLEAN}

(* the same call with every document's content exchanged for the other one *)
SwapDocs(a) ==
  [a EXCEPT !.documents = [i \in DOMAIN a.documents |->
     IF a.documents[i] = "" THEN "" ELSE Other(a.documents[i])]]

FirstArgs ==
  {a \in ArgSet : a.metadata_items \in ItemLists(a.documents)
                  /\ (a.metadata_items.some => a.metadata_source = "")}

(* a later call re-submits the previous input, or the previous input with  *)
(* changed content at the same positions                                   *)
Resubmit(a) == {a, SwapDocs(a)}

----------------------------------------------------------------------------
VARIABLES
  (* module configuration, client.py 58-64 *)
  OVERWRITE_EXISTING, DOC_ID_FIELDS, UPSERT_BATCH_SIZE, EXISTING_ID_BATCH_SIZE,
  (* the backend behind the adapter *)
  collections, store,
  (* CodexVectorClient.upsert: position and locals *)
  pc, callNo, args, docs, collection_id, prepared_metadatas, doc_ids,
  existing, docs_to_upsert, metas_to_upsert, ids_to_upsert, skipped, replaced,
  offset, embeddings, total_upserted, message, error,
  (* observations of the current call and of the call before it *)
  net, embed_calls, upsert_calls, backend0, prev, idxs_to_upsert, written,
  (* the embedding provider, client.py 524-525 *)
  embedder, embedder_failed,
  (* the last query_results, collection_count or iter_metadata call *)
  last_op,
  (* _ChromaBackend._request: configuration (63-64), position and locals *)
  HTTP_RETRIES, HTTP_RETRY_DELAY, rq_pc, attempt, attempts, last_error,
  rq_result, rq_error, rq_events,
  (* existing_ids of an adapter: arguments, the IDs the collection holds,   *)
  (* position and locals                                                    *)
  ex_pc, ex_ids, ex_stored, ex_chunks, ex_next, matches, ex_requests,
  (* construction of the client, line 506: the dimension argument and the   *)
  (* CODEX_VECTOR_DIM setting, the resulting self.dimension, and the length *)
  (* of the vectors the primary model produces                              *)
  ctor, dimension, model_dimension,
  (* the _embed_documents calls made directly on the client, in order *)
  em_log,
  (* status of an adapter: the adapter, the collections it lists, position  *)
  (* and locals, the collection whose count lookup failed, the requests     *)
  st_pc, st_backend, st_names, st_next, st_items, st_failed, st_net,
  (* _build_doc_id applied to two inputs *)
  id_pc, id_a, id_b, id_out,
  (* the create requests that ensure_collection has issued, in order, each  *)
  (* with the name and whether the collection was created                   *)
  created,
  (* the generate_embedding calls, in order *)
  fb_log,
  (* _select_backend applied to a configuration *)
  sel_pc, sel_in, sel_out,
  (* ensure_collection of two client instances for one name: the adapter,   *)
  (* whether the backend holds the name, per instance position and result,  *)
  (* the requests                                                           *)
  en_backend, en_exists, en_pc, en_ret, en_net,
  (* _ChromaBackend.iter_metadata: the metadata entries of the collection   *)
  (* in the backend's order, the batch size, position and locals, the       *)
  (* yielded entries and the offsets requested                              *)
  it_pc, it_coll, it_batch, it_offset, it_out, it_net,
  (* the IDs that another client instance has stored in the collection      *)
  (* while an upsert call of this instance was running, in order, each with *)
  (* the call and the number of batches the call had sent by then           *)
  others,
  (* _ChromaBackend.collection_count: position, the JSON body of the count  *)
  (* response, the returned count and the exception that left the call      *)
  cnt_pc, cnt_body, cnt_ret, cnt_error,
  (* _QdrantBackend: position, the arguments of the upsert call, the points *)
  (* the collection holds (payload by ID), the last read and its result     *)
  qd_pc, qd_in, qd_points, qd_read, qd_out

sizing == <<ctor, dimension, model_dimension>>
config ==
  <<OVERWRITE_EXISTING, DOC_ID_FIELDS, UPSERT_BATCH_SIZE, EXISTING_ID_BATCH_SIZE, sizing>>
embed_vars == <<em_log>>
status_vars == <<st_pc, st_backend, st_names, st_next, st_items, st_failed, st_net>>
ident_vars == <<id_pc, id_a, id_b, id_out>>
fallback_vars == <<fb_log>>
select_vars == <<sel_pc, sel_in, sel_out>>
ensure_vars == <<en_backend, en_exists, en_pc, en_ret, en_net>>
iter_vars == <<it_pc, it_coll, it_batch, it_offset, it_out, it_net>>
shared_vars == <<others>>
count_vars == <<cnt_pc, cnt_body, cnt_ret, cnt_error>>
qdrant_vars == <<qd_pc, qd_in, qd_points, qd_read, qd_out>>
more_vars ==
  <<fallback_vars, select_vars, ensure_vars, iter_vars, shared_vars, count_vars,
    qdrant_vars>>
backend == <<collections, store, created>>
prepared == <<docs, prepared_metadatas, doc_ids>>
filtered == <<docs_to_upsert, metas_to_upsert, ids_to_upsert, idxs_to_upsert, skipped, replaced>>
loop == <<offset, embeddings, total_upserted>>
observed == <<embed_calls, upsert_calls, backend0, prev, written>>
provider == <<embedder, embedder_failed>>
request_vars ==
  <<HTTP_RETRIES, HTTP_RETRY_DELAY, rq_pc, attempt, attempts, last_error,
    rq_result, rq_error, rq_events>>
chunk_vars == <<ex_pc, ex_ids, ex_stored, ex_chunks, ex_next, matches, ex_requests>>
upsert_vars ==
  <<pc, callNo, args, collection_id, existing, message, error, net,
    prepared, filtered, loop, observed>>

NoMessage == [kind |-> "none", upserted |-> 0, replaced |-> 0, skipped |-> 0]
NoArgs ==
  [name_or_id |-> "", documents |-> <<>>, metadata_source |-> "",
   metadata_items |-> NoItems, create_collection |-> FALSE]
NoPrev ==
  [some |-> FALSE, args |-> NoArgs, outcome |-> "none", upsert_calls |-> <<>>,
   before |-> [collections |-> {}, store |-> [name \in Names |-> EmptyMap]]]

Request(op, n) == [op |-> op, n |-> n]

NoOp ==
  [op |-> "none", name |-> "", outcome |-> "none", net |-> <<>>, embeds |-> <<>>,
   count |-> 0, results |-> <<>>, metas |-> {}, id |-> "",
   query |-> [text |-> "", limit |-> 0], adapter |-> <<>>]

InitConfig ==
  /\ OVERWRITE_EXISTING \in BOOLEAN
  /\ DOC_ID_FIELDS \in {<<>>, <<"source", "position">>}
  /\ UPSERT_BATCH_SIZE \in 1..MaxBatch
  /\ EXISTING_ID_BATCH_SIZE \in 1..MaxCheckBatch

InitUpsert ==
  /\ collections = {}
  /\ created = <<>>
  /\ store = [name \in Names |-> EmptyMap]
  /\ pc = "idle"
  /\ callNo = 0
  /\ args = NoArgs
  /\ docs = <<>>
  /\ collection_id = ""
  /\ prepared_metadatas = <<>>
  /\ doc_ids = <<>>
  /\ existing = {}
  /\ docs_to_upsert = <<>>
  /\ metas_to_upsert = <<>>
  /\ ids_to_upsert = <<>>
  /\ idxs_to_upsert = <<>>
  /\ skipped = 0
  /\ replaced = 0
  /\ offset = 0
  /\ embeddings = <<>>
  /\ total_upserted = 0
  /\ message = NoMessage
  /\ error = "none"
  /\ net = <<>>
  /\ embed_calls = <<>>
  /\ upsert_calls = <<>>
  /\ backend0 = [collections |-> collections, store |-> store]
  /\ prev = NoPrev
  /\ written = <<>>

(* embeddings.py 13 *)
DEFAULT_DIMENSION == 384

(* a dimension argument or CODEX_VECTOR_DIM setting: absent, or an integer *)
NoDim == [some |-> FALSE, value |-> 0]
SomeDim(value) == [some |-> TRUE, value |-> value]

(* get_dimension, embeddings.py 22-31: the integer of CODEX_VECTOR_DIM, the *)
(* default when it is not set                                               *)
get_dimension(env, default) == IF env.some THEN env.value ELSE default

(* line 506: dimension or get_dimension(DEFAULT_DIMENSION); None and 0 are  *)
(* both false                                                               *)
dimension_of(arg, env) ==
  IF arg.some /\ arg.value # 0 THEN arg.value
  ELSE get_dimension(env, DEFAULT_DIMENSION)

(* a client constructed without a dimension argument and without            *)
(* CODEX_VECTOR_DIM, with the default model (384 values per vector)         *)
DefaultSizing ==
  /\ ctor = [dimension |-> NoDim, env |-> NoDim]
  /\ dimension = dimension_of(ctor.dimension, ctor.env)
  /\ model_dimension = DEFAULT_DIMENSION

(* no direct _embed_documents call, no status call, no ID computation *)
EmbedOff == em_log = <<>>

StatusOff ==
  /\ st_pc = "off"
  /\ st_backend = "chroma"
  /\ st_names = <<>>
  /\ st_next = 0
  /\ st_items = <<>>
  /\ st_failed = ""
  /\ st_net = <<>>

NoIdInput ==
  [content |-> "", metadata |-> EmptyMap, metadata_source |-> ""]

IdsOff ==
  /\ id_pc = "off"
  /\ id_a = NoIdInput
  /\ id_b = NoIdInput
  /\ id_out = <<>>

FallbackOff == fb_log = <<>>

NoSelection == [preference |-> "", base_url |-> "", profile |-> "", env_url |-> ""]

SelectOff ==
  /\ sel_pc = "off"
  /\ sel_in = NoSelection
  /\ sel_out = ""

EnsureOff ==
  /\ en_backend = "chroma"
  /\ en_exists = FALSE
  /\ en_pc = <<"off", "off">>
  /\ en_ret = <<"", "">>
  /\ en_net = <<>>

IterOff ==
  /\ it_pc = "off"
  /\ it_coll = <<>>
  /\ it_batch = 1
  /\ it_offset = 0
  /\ it_out = <<>>
  /\ it_net = <<>>

(* no other client instance writes *)
Alone == others = <<>>

NoBody == [type |-> "none", has_count |-> FALSE, numeric |-> FALSE, value |-> 0]

CountOff ==
  /\ cnt_pc = "off"
  /\ cnt_body = NoBody
  /\ cnt_ret = 0
  /\ cnt_error = "none"

QdrantOff ==
  /\ qd_pc = "off"
  /\ qd_in = <<>>
  /\ qd_points = EmptyMap
  /\ qd_read = "none"
  /\ qd_out = <<>>

MoreOff ==
  FallbackOff /\ SelectOff /\ EnsureOff /\ IterOff /\ Alone /\ CountOff /\ QdrantOff

(* lines 484-488 and 524-525; embeddings.py 40-50: the model is loaded, or  *)
(* it is None when the dependency or the model is not available          *)
InitProvider ==
  /\ embedder \in {"none", "model"}
  /\ embedder_failed = FALSE

(* _request and existing_ids are not running *)
RequestOff ==
  /\ HTTP_RETRIES = 3
  /\ HTTP_RETRY_DELAY = 2
  /\ rq_pc = "off"
  /\ attempt = 0
  /\ attempts = 0
  /\ last_error = "none"
  /\ rq_result = "none"
  /\ rq_error = "none"
  /\ rq_events = <<>>

ExistingOff ==
  /\ ex_pc = "off"
  /\ ex_ids = <<>>
  /\ ex_stored = {}
  /\ ex_chunks = <<>>
  /\ ex_next = 0
  /\ matches = {}
  /\ ex_requests = <<>>

Init ==
  InitConfig /\ InitUpsert /\ InitProvider /\ last_op = NoOp
    /\ RequestOff /\ ExistingOff
    /\ DefaultSizing /\ EmbedOff /\ StatusOff /\ IdsOff /\ MoreOff

----------------------------------------------------------------------------
(* CodexVectorClient.upsert *)

(* lines 577-582: drop empty documents, validate *)
Upsert(a) ==
  /\ pc \in {"idle", "done", "raised"}
  /\ callNo < MaxCalls
  /\ callNo' = callNo + 1
  /\ args' = a
  /\ docs' = NonEmpty(a.documents)
  /\ IF docs' = <<>>
     THEN pc' = "raised" /\ error' = "no_documents"
     ELSE IF a.metadata_items.some /\ Len(a.metadata_items.items) # Len(docs')
     THEN pc' = "raised" /\ error' = "metadata_mismatch"
     ELSE pc' = "resolve" /\ error' = "none"
  /\ collection_id' = ""
  /\ prepared_metadatas' = <<>>
  /\ doc_ids' = <<>>
  /\ existing' = {}
  /\ docs_to_upsert' = <<>>
  /\ metas_to_upsert' = <<>>
  /\ ids_to_upsert' = <<>>
  /\ idxs_to_upsert' = <<>>
  /\ skipped' = 0
  /\ replaced' = 0
  /\ offset' = 0
  /\ embeddings' = <<>>
  /\ total_upserted' = 0
  /\ message' = NoMessage
  /\ net' = <<>>
  /\ embed_calls' = <<>>
  /\ upsert_calls' = <<>>
  /\ backend0' = [collections |-> collections, store |-> store]
  /\ prev' = IF callNo = 0 THEN NoPrev
             ELSE [some |-> TRUE, args |-> args, outcome |-> pc,
                   upsert_calls |-> upsert_calls, before |-> backend0]
  /\ written' = IF callNo > 0 /\ a = args THEN written
                ELSE [i \in 1..Len(docs') |-> 0]
  /\ last_op' = NoOp
  /\ UNCHANGED <<config, more_vars, embed_vars, status_vars, ident_vars, request_vars, chunk_vars, backend, provider>>

CallUpsert ==
  \E a \in (IF callNo = 0 THEN FirstArgs ELSE Resubmit(args)) : Upsert(a)

(* mutant of resolve_collection: an absent collection resolves to its name *)
resolve_collection_Lenient(name_or_id, colls) ==
  {[outcome |-> "ok"], [outcome |-> "transport"]}

(* resolve_collection, lines 208-213 and 400-403 (a collection's id is its  *)
(* name): the outcomes of the lookup request, which returns the id, raises  *)
(* "not found", or fails in transport                                       *)
resolve_collection(name_or_id, colls) ==
  {[outcome |-> IF name_or_id \in colls THEN "ok" ELSE "not_found"],
   [outcome |-> "transport"]}

(* mutant of ensure_lookup: the lookup never finds the name *)
ensure_lookup_Blind(name, colls) ==
  {[outcome |-> "absent"], [outcome |-> "transport"]}

(* the lookup of ensure_collection, lines 200-204 and 395-396 *)
ensure_lookup(name, colls) ==
  {[outcome |-> IF name \in colls THEN "ok" ELSE "absent"],
   [outcome |-> "transport"]}

(* lines 584-587: ensure_collection or get_collection_id, up to the lookup *)
ResolveCollection ==
  /\ pc = "resolve"
  /\ net' = Append(net, Request("list", 0))
  /\ \E r \in (IF args.create_collection
                THEN ensure_lookup(args.name_or_id, collections)
                ELSE resolve_collection(args.name_or_id, collections)) :
       /\ collection_id' = IF r.outcome = "ok" THEN args.name_or_id ELSE collection_id
       /\ pc' = CASE r.outcome = "ok" -> "prepare"
                  [] r.outcome = "absent" -> "create"
                  [] OTHER -> "raised"
       /\ error' = IF r.outcome \in {"ok", "absent"} THEN error ELSE r.outcome
  /\ UNCHANGED <<config, more_vars, embed_vars, status_vars, ident_vars, request_vars, chunk_vars, backend, callNo, args, existing, message,
                 prepared, filtered, loop, observed, provider, last_op>>

(* mutant of with_collection: the new collection replaces the others *)
with_collection_Only(colls, name) == {name}

(* the backend's collections after a create request *)
with_collection(colls, name) == colls \cup {name}

(* ensure_collection, lines 205-206 and 389-398: create the absent collection *)
CreateCollection ==
  /\ pc = "create"
  /\ net' = Append(net, Request("create", 0))
  /\ \/ /\ collections' = with_collection(collections, args.name_or_id)
        /\ created' = Append(created, [name |-> args.name_or_id, ok |-> TRUE])
        /\ collection_id' = args.name_or_id
        /\ pc' = "prepare"
        /\ error' = error
     \/ /\ created' = Append(created, [name |-> args.name_or_id, ok |-> FALSE])
        /\ UNCHANGED <<collections, collection_id>>
        /\ pc' = "raised"
        /\ error' = "transport"
  /\ UNCHANGED <<config, more_vars, embed_vars, status_vars, ident_vars, request_vars, chunk_vars, store, callNo, args, existing, message,
                 prepared, filtered, loop, observed, provider, last_op>>

(* lines 589-611 *)
PrepareIds ==
  /\ pc = "prepare"
  /\ LET p == [i \in 1..Len(docs) |->
                 prepared_of(DOC_ID_FIELDS, i - 1, docs[i],
                             args.metadata_source, args.metadata_items)]
     IN /\ prepared_metadatas' = [i \in 1..Len(docs) |-> p[i].meta]
        /\ doc_ids' = [i \in 1..Len(docs) |-> p[i].id]
  /\ pc' = "check"
  /\ UNCHANGED <<config, more_vars, embed_vars, status_vars, ident_vars, request_vars, chunk_vars, backend, callNo, args, docs, collection_id, existing,
                 message, error, net, filtered, loop, observed, provider, last_op>>

(* _ChromaBackend.existing_ids (226-240) and _QdrantBackend.existing_ids    *)
(* (409-420) against a collection holding the IDs in `stored`: one request  *)
(* per chunk; the result after the first k chunks                           *)
RECURSIVE MatchesOf(_, _, _)
MatchesOf(chunks, stored, k) ==
  IF k = 0 THEN {}
  ELSE MatchesOf(chunks, stored, k - 1) \cup (Range(chunks[k]) \cap stored)

(* mutant of existing_ids: nothing is reported as existing *)
existing_ids_Blind(stored, ids, size) == {}

existing_ids(stored, ids, size) ==
  IF ids = <<>> THEN {}
  ELSE LET chunks == chunk_items(ids, size)
       IN MatchesOf(chunks, stored, Len(chunks))

(* the requests existing_ids issues for the first k chunks *)
ChunkRequests(ids, size, k) ==
  LET chunks == chunk_items(ids, size)
  IN [j \in 1..k |-> Request("get", Len(chunks[j]))]

(* line 613: the existence check; request k + 1 may raise *)
ExistingIds ==
  /\ pc = "check"
  /\ LET chunks == chunk_items(doc_ids, EXISTING_ID_BATCH_SIZE)
     IN \/ /\ existing' = existing_ids(DOMAIN store[collection_id], doc_ids,
                                       EXISTING_ID_BATCH_SIZE)
           /\ net' = net \o ChunkRequests(doc_ids, EXISTING_ID_BATCH_SIZE, Len(chunks))
           /\ pc' = "filter"
           /\ error' = error
        \/ \E k \in 1..Len(chunks) :
           /\ existing' = existing
           /\ net' = net \o ChunkRequests(doc_ids, EXISTING_ID_BATCH_SIZE, k)
           /\ pc' = "raised"
           /\ error' = "transport"
  /\ UNCHANGED <<config, more_vars, embed_vars, status_vars, ident_vars, request_vars, chunk_vars, backend, callNo, args, collection_id, message,
                 prepared, filtered, loop, observed, provider, last_op>>

(* mutant of Kept: existing documents are not skipped *)
Kept_All(ids, present, overwrite) == [i \in 1..Len(ids) |-> i]

(* lines 625-633: the indexes of the documents that are kept *)
Kept(ids, present, overwrite) ==
  SelectSeq([i \in 1..Len(ids) |-> i],
            LAMBDA i : ~(ids[i] \in present /\ ~overwrite))

(* mutant of CountIn: documents found existing are not counted *)
CountIn_None(ids, present) == 0

(* lines 623-630: how many input documents have an ID that exists *)
CountIn(ids, present) == Cardinality({i \in 1..Len(ids) : ids[i] \in present})

(* mutant of all_present: the early return does not look at the policy *)
all_present_AnyPolicy(present, ids, overwrite) ==
  present # {} /\ Cardinality(present) = Len(ids)

(* line 614: the condition of the early return *)
all_present(present, ids, overwrite) ==
  present # {} /\ Cardinality(present) = Len(ids) /\ ~overwrite

(* mutant of Pick: the list is not filtered *)
Pick_All(items, keep) == items

(* lines 631-633: the entries of a list at the kept indexes *)
Pick(items, keep) == [j \in 1..Len(keep) |-> items[keep[j]]]

(* lines 614-640 *)
FilterDecision ==
  /\ pc = "filter"
  /\ IF all_present(existing, doc_ids, OVERWRITE_EXISTING)
     THEN /\ message' = [NoMessage EXCEPT !.kind = "all_present", !.skipped = Len(doc_ids)]
          /\ pc' = "done"
          /\ UNCHANGED <<filtered, loop>>
     ELSE LET keep == Kept(doc_ids, existing, OVERWRITE_EXISTING)
              present == CountIn(doc_ids, existing)
          IN /\ docs_to_upsert' = Pick(docs, keep)
             /\ metas_to_upsert' = Pick(prepared_metadatas, keep)
             /\ ids_to_upsert' = Pick(doc_ids, keep)
             /\ idxs_to_upsert' = keep
             /\ skipped' = IF OVERWRITE_EXISTING THEN 0 ELSE present
             /\ replaced' = IF OVERWRITE_EXISTING THEN present ELSE 0
             /\ IF keep = <<>>
                THEN /\ message' = [NoMessage EXCEPT !.kind = "no_new", !.skipped = skipped']
                     /\ pc' = "done"
                     /\ UNCHANGED loop
                ELSE /\ message' = message
                     /\ pc' = "embed"
                     /\ offset' = 0
                     /\ total_upserted' = 0
                     /\ embeddings' = <<>>
  /\ UNCHANGED <<config, more_vars, embed_vars, status_vars, ident_vars, request_vars, chunk_vars, backend, callNo, args, collection_id, existing, error,
                 net, prepared, observed, provider, last_op>>

(* _embed_documents, lines 699-711: one vector per text, from the primary   *)
(* model or from generate_embedding                                         *)
Vectors(kind, texts, len) ==
  [i \in 1..Len(texts) |-> [kind |-> kind, text |-> texts[i], len |-> len]]

(* mutant of degraded: a failure of the primary model is not remembered *)
degraded_Forgetful(model, failed) == model = "none"

(* line 703: the primary model is not used when it was not loaded or has    *)
(* failed before                                                            *)
degraded(model, failed) == model = "none" \/ failed

(* line 711 with embeddings.py 53-77: generate_embedding for every text;    *)
(* it raises ValueError for a dimension that is not positive                *)
fallback_embed(texts, dim, failed, primary) ==
  IF dim <= 0
  THEN [vectors |-> <<>>, failed |-> failed, primary |-> primary,
        raised |-> primary, error |-> "dimension"]
  ELSE [vectors |-> Vectors("fallback", texts, dim), failed |-> failed,
        primary |-> primary, raised |-> primary, error |-> "none"]

(* the outcomes of _embed_documents(texts): the vectors, the new value of   *)
(* _embedder_failed, whether the primary model was invoked and whether its  *)
(* encode() raised, and the error of the call                               *)
embed_documents(texts, model, failed, dim, mdim) ==
  IF texts = <<>>
  THEN {[vectors |-> <<>>, failed |-> failed, primary |-> FALSE,
         raised |-> FALSE, error |-> "none"]}
  ELSE IF ~degraded(model, failed)
       THEN {[vectors |-> Vectors("primary", texts, mdim), failed |-> failed,
              primary |-> TRUE, raised |-> FALSE, error |-> "none"],
             fallback_embed(texts, dim, TRUE, TRUE)}
       ELSE {fallback_embed(texts, dim, failed, FALSE)}

(* mutant of range_step: every second batch is passed over *)
range_step_Skip(from, size) == from + 2 * size

(* line 643: the next offset of range(0, len(ids_to_upsert), UPSERT_BATCH_SIZE) *)
range_step(from, size) == from + size

(* lines 643-649: slice the batch at offset and embed it *)
EmbedBatch ==
  /\ pc = "embed"
  /\ offset < Len(ids_to_upsert)
  /\ LET batch_docs == Slice(docs_to_upsert, offset, UPSERT_BATCH_SIZE)
     IN /\ \E e \in embed_documents(batch_docs, embedder, embedder_failed,
                                     dimension, model_dimension) :
             /\ embeddings' = e.vectors
             /\ embedder_failed' = e.failed
             /\ error' = IF e.error = "none" THEN error ELSE e.error
             /\ IF e.error # "none"
                THEN pc' = "raised" /\ offset' = offset
                ELSE IF e.vectors = <<>>
                THEN pc' = "embed" /\ offset' = range_step(offset, UPSERT_BATCH_SIZE)
                ELSE pc' = "write" /\ offset' = offset
        /\ embed_calls' = Append(embed_calls, batch_docs)
  /\ UNCHANGED <<config, more_vars, embed_vars, status_vars, ident_vars, request_vars, chunk_vars, backend, callNo, args, collection_id, existing, message,
                 net, prepared, filtered, total_upserted,
                 upsert_calls, backend0, prev, written, embedder, last_op>>

(* the adapter's upsert, 242-262 and 422-435: the entries are stored in     *)
(* order, a later entry with the same ID replaces an earlier one            *)
RECURSIVE StoreAll(_, _, _, _)
StoreAll(coll, ids, documents, metadatas) ==
  IF ids = <<>> THEN coll
  ELSE StoreAll(Put(coll, Head(ids),
                    [document |-> Head(documents), metadata |-> Head(metadatas)]),
                Tail(ids), Tail(documents), Tail(metadatas))

(* mutant of batch_metas_of: every batch carries the first metadata maps *)
batch_metas_of_First(metas, from, size) == Slice(metas, 0, Min(size, Len(metas) - from))

(* line 646: metas_to_upsert[offset : offset + UPSERT_BATCH_SIZE] *)
batch_metas_of(metas, from, size) == Slice(metas, from, size)

(* mutant of after_write: a failed write is swallowed and the loop goes on *)
after_write_Swallow(ok) == "embed"

(* lines 650-657: an exception of the adapter's upsert is not caught, it     *)
(* ends the call; a write that returned continues the loop                  *)
after_write(ok) == IF ok THEN "embed" ELSE "raised"

(* lines 650-657: write the batch; the request may raise *)
WriteBatch ==
  /\ pc = "write"
  /\ LET batch_ids == Slice(ids_to_upsert, offset, UPSERT_BATCH_SIZE)
         batch_docs == Slice(docs_to_upsert, offset, UPSERT_BATCH_SIZE)
         batch_metas == batch_metas_of(metas_to_upsert, offset, UPSERT_BATCH_SIZE)
         batch_idxs == Slice(idxs_to_upsert, offset, UPSERT_BATCH_SIZE)
         call(ok) == [collection |-> collection_id, ids |-> batch_ids,
                      documents |-> batch_docs, metadatas |-> batch_metas,
                      ok |-> ok]
     IN /\ net' = Append(net, Request("upsert", Len(batch_ids)))
        /\ \/ /\ store' = [store EXCEPT ![collection_id] =
                             StoreAll(@, batch_ids, batch_docs, batch_metas)]
              /\ upsert_calls' = Append(upsert_calls, call(TRUE))
              /\ written' = [i \in DOMAIN written |->
                               IF i \in Range(batch_idxs) THEN written[i] + 1
                               ELSE written[i]]
              /\ total_upserted' = total_upserted + Len(batch_ids)
              /\ offset' = range_step(offset, UPSERT_BATCH_SIZE)
              /\ pc' = after_write(TRUE)
              /\ error' = error
           \/ /\ upsert_calls' = Append(upsert_calls, call(FALSE))
              /\ pc' = after_write(FALSE)
              /\ error' = "transport"
              /\ UNCHANGED <<store, written, total_upserted, offset>>
  /\ UNCHANGED <<config, more_vars, embed_vars, status_vars, ident_vars, request_vars, chunk_vars, collections, created, callNo, args, collection_id, existing,
                 message, prepared, filtered, embeddings, embed_calls, backend0, prev,
                 provider, last_op>>

(* lines 659-667 *)
Report ==
  /\ pc = "embed"
  /\ offset >= Len(ids_to_upsert)
  /\ message' = [kind |-> "upserted", upserted |-> total_upserted,
                 replaced |-> replaced, skipped |-> skipped]
  /\ pc' = "done"
  /\ UNCHANGED <<config, more_vars, embed_vars, status_vars, ident_vars, request_vars, chunk_vars, backend, callNo, args, collection_id, existing, error,
                 net, prepared, filtered, loop, observed, provider, last_op>>

----------------------------------------------------------------------------
(* The read operations of the client.  Each is one call of a caller that   *)
(* is not inside upsert; the model follows one read call between two       *)
(* upsert calls.                                                           *)

Quiescent == pc \in {"idle", "done", "raised"} /\ last_op.op = "none"

(* the sequences of n distinct stored IDs *)
Rankings(stored, n) ==
  {r \in [1..n -> stored] : \A i, j \in 1..n : i # j => r[i] # r[j]}

(* mutant of result_count: the limit is not applied *)
result_count_All(limit, size) == size

(* the adapter's query (264-274, 437-456) asks for `limit` results: the     *)
(* number of results for a collection of the given size                     *)
result_count(limit, size) == Min(limit, size)

(* mutant of returned_results: the list is returned in reverse order *)
returned_results_Reversed(found) ==
  [i \in 1..Len(found) |-> found[Len(found) + 1 - i]]

(* line 689: the adapter's list is the return value *)
returned_results(found) == found

(* the adapter's result list (309-327, 444-456): per hit the document, the  *)
(* distance the backend reports (here the rank) and the metadata            *)
adapter_results(coll, rank) ==
  [i \in 1..Len(rank) |->
     [document |-> coll[rank[i]].document,
      distance |-> i,
      metadata |-> coll[rank[i]].metadata]]

(* query_results, lines 684-689, with the adapter's query (264-274, 437-456) *)
QueryResults(name, query_text, limit) ==
  /\ Quiescent
  /\ \E r \in resolve_collection(name, collections) :
       IF r.outcome # "ok"
       THEN /\ last_op' = [NoOp EXCEPT !.op = "query_results", !.name = name,
                                        !.outcome = r.outcome,
                                        !.net = <<Request("list", 0)>>]
            /\ UNCHANGED provider
       ELSE \E e \in embed_documents(<<query_text>>, embedder, embedder_failed,
                                     dimension, model_dimension) :
            /\ embedder_failed' = e.failed
            /\ embedder' = embedder
            /\ LET coll == store[name]
                   n == result_count(limit, Cardinality(DOMAIN coll))
                   base == [NoOp EXCEPT !.op = "query_results", !.name = name,
                                        !.query = [text |-> query_text, limit |-> limit],
                                        !.embeds = e.vectors,
                                        !.net = <<Request("list", 0), Request("query", limit)>>]
               IN IF e.error # "none"
                  THEN last_op' = [NoOp EXCEPT !.op = "query_results", !.name = name,
                                               !.outcome = e.error,
                                               !.net = <<Request("list", 0)>>]
                  ELSE
                  \/ \E rank \in Rankings(DOMAIN coll, n) :
                       last_op' = [base EXCEPT !.outcome = "ok",
                                     !.adapter = adapter_results(coll, rank),
                                     !.results = returned_results(adapter_results(coll, rank))]
                  \/ last_op' = [base EXCEPT !.outcome = "transport"]
  /\ UNCHANGED <<config, more_vars, embed_vars, status_vars, ident_vars, request_vars, chunk_vars, backend, upsert_vars>>

(* collection_count, lines 564-566, with the adapter's count (215-224, 405-407) *)
CollectionCount(name) ==
  /\ Quiescent
  /\ \E r \in resolve_collection(name, collections) :
       IF r.outcome # "ok"
       THEN last_op' = [NoOp EXCEPT !.op = "collection_count", !.name = name,
                                    !.outcome = r.outcome,
                                    !.net = <<Request("list", 0)>>]
       ELSE LET base == [NoOp EXCEPT !.op = "collection_count", !.name = name,
                                     !.net = <<Request("list", 0), Request("count", 0)>>]
            IN \/ last_op' = [base EXCEPT !.outcome = "ok",
                                          !.count = Cardinality(DOMAIN store[name])]
               \/ last_op' = [base EXCEPT !.outcome = "transport"]
  /\ UNCHANGED <<config, more_vars, embed_vars, status_vars, ident_vars, request_vars, chunk_vars, backend, upsert_vars, provider>>

(* iter_metadata, lines 691-695, drained by its caller, with the paging of  *)
(* _ChromaBackend.iter_metadata (276-291): pages at offsets 0, B, 2B, ...   *)
(* until a page is empty or short                                          *)
IterMetadata(name, batch_size) ==
  /\ Quiescent
  /\ \E r \in resolve_collection(name, collections) :
       IF r.outcome # "ok"
       THEN last_op' = [NoOp EXCEPT !.op = "iter_metadata", !.name = name,
                                    !.outcome = r.outcome,
                                    !.net = <<Request("list", 0)>>]
       ELSE LET coll == store[name]
                pages == (Cardinality(DOMAIN coll) \div batch_size) + 1
                base(k) == [NoOp EXCEPT !.op = "iter_metadata", !.name = name,
                              !.net = <<Request("list", 0)>>
                                        \o [j \in 1..k |-> Request("page", batch_size)]]
            IN \/ last_op' = [base(pages) EXCEPT !.outcome = "ok",
                                 !.metas = {coll[id].metadata : id \in DOMAIN coll}]
               \/ \E k \in 1..pages : last_op' = [base(k) EXCEPT !.outcome = "transport"]
  /\ UNCHANGED <<config, more_vars, embed_vars, status_vars, ident_vars, request_vars, chunk_vars, backend, upsert_vars, provider>>

CallQueryResults ==
  \E name \in Names, query_text \in Contents, limit \in 1..MaxLimit :
    QueryResults(name, query_text, limit)

CallCollectionCount == \E name \in Names : CollectionCount(name)

CallIterMetadata ==
  \E name \in Names, batch_size \in 1..MaxPage : IterMetadata(name, batch_size)

----------------------------------------------------------------------------
(* The collection operations of the client, called outside upsert; as for   *)
(* the read operations, one call between two upsert calls                   *)

MaxCreates == 2

OpNames == Names \cup {"notes"}

(* status, lines 529-552, with the adapter's status (173-189, 374-387): it  *)
(* lists the collections and counts each, or raises                         *)
Status ==
  /\ Quiescent
  /\ \/ last_op' = [NoOp EXCEPT !.op = "status", !.outcome = "ok",
                                !.count = Cardinality(collections)]
     \/ last_op' = [NoOp EXCEPT !.op = "status", !.outcome = "transport"]
  /\ UNCHANGED <<config, more_vars, embed_vars, status_vars, ident_vars,
                 request_vars, chunk_vars, backend, upsert_vars, provider>>

(* create_collection, lines 554-556, with the adapter's (191-198: the POST  *)
(* of an existing name is refused by the backend; 389-393: an existing name *)
(* is left alone)                                                           *)
CreateCollectionOp(name) ==
  /\ Quiescent
  /\ LET base == [NoOp EXCEPT !.op = "create_collection", !.name = name,
                              !.net = <<Request("create", 0)>>]
     IN \/ /\ name \notin collections
           /\ collections' = with_collection(collections, name)
           /\ last_op' = [base EXCEPT !.outcome = "ok", !.id = name]
        \/ /\ name \in collections
           /\ last_op' = [base EXCEPT !.outcome = "exists", !.id = name]
           /\ UNCHANGED collections
        \/ /\ last_op' = [base EXCEPT !.outcome = "transport"]
           /\ UNCHANGED collections
  /\ UNCHANGED <<config, more_vars, embed_vars, status_vars, ident_vars,
                 request_vars, chunk_vars, store, created, upsert_vars, provider>>

(* ensure_collection, line 561, with the adapter's (200-206, 395-398): look *)
(* the name up, create it when it is absent, return its id                  *)
EnsureCollection(name) ==
  /\ Quiescent
  /\ LET base == [NoOp EXCEPT !.op = "ensure_collection", !.name = name,
                              !.net = <<Request("list", 0)>>]
         both == [base EXCEPT !.net = <<Request("list", 0), Request("create", 0)>>]
     IN \E r \in ensure_lookup(name, collections) :
          CASE r.outcome = "ok" ->
                 /\ last_op' = [base EXCEPT !.outcome = "ok", !.id = name]
                 /\ UNCHANGED <<collections, created>>
            [] r.outcome = "absent" ->
                 /\ Len(created) < MaxCreates
                 /\ \/ /\ collections' = with_collection(collections, name)
                       /\ created' = Append(created, [name |-> name, ok |-> TRUE])
                       /\ last_op' = [both EXCEPT !.outcome = "ok", !.id = name]
                    \/ /\ created' = Append(created, [name |-> name, ok |-> FALSE])
                       /\ last_op' = [both EXCEPT !.outcome = "transport"]
                       /\ UNCHANGED collections
            [] OTHER ->
                 /\ last_op' = [base EXCEPT !.outcome = r.outcome]
                 /\ UNCHANGED <<collections, created>>
  /\ UNCHANGED <<config, more_vars, embed_vars, status_vars, ident_vars,
                 request_vars, chunk_vars, store, upsert_vars, provider>>

CallStatus == Status

CallCreateCollection == \E name \in OpNames : CreateCollectionOp(name)

CallEnsureCollection == \E name \in OpNames : EnsureCollection(name)

vars ==
  <<config, backend, upsert_vars, provider, last_op, request_vars, chunk_vars,
    embed_vars, status_vars, ident_vars, more_vars>>

Next ==
  \/ CallUpsert
  \/ ResolveCollection
  \/ CreateCollection
  \/ PrepareIds
  \/ ExistingIds
  \/ FilterDecision
  \/ EmbedBatch
  \/ WriteBatch
  \/ Report

Spec == Init /\ [][Next]_vars

(* upsert together with the read operations, for one batch configuration *)
InitRead ==
  /\ Init
  /\ UPSERT_BATCH_SIZE = MaxBatch
  /\ EXISTING_ID_BATCH_SIZE = MaxCheckBatch

NextRead ==
  \/ Next
  \/ CallQueryResults
  \/ CallCollectionCount
  \/ CallIterMetadata

SpecRead == InitRead /\ [][NextRead]_vars

(* upsert together with every other operation of the client (query prints  *)
(* what query_results returns, lines 669-682), for the default ID scheme    *)
(* and the fallback provider                                                *)
InitOps ==
  /\ InitRead
  /\ DOC_ID_FIELDS = <<>>
  /\ embedder = "none"

NextOps ==
  \/ NextRead
  \/ CallStatus
  \/ CallCreateCollection
  \/ CallEnsureCollection

SpecOps == InitOps /\ [][NextOps]_vars

----------------------------------------------------------------------------
(* upsert while another client instance writes into the same collection *)

MaxOther == 1

(* the adapter's upsert (242-262, 422-435) called by another instance for   *)
(* one of the documents of the running call, at any moment after the IDs    *)
(* were prepared                                                            *)
OtherWrite ==
  /\ pc \in {"check", "filter", "embed", "write"}
  /\ Len(others) < MaxOther
  /\ \E i \in DOMAIN doc_ids :
       /\ store' = [store EXCEPT ![collection_id] =
                      Put(@, doc_ids[i], [document |-> docs[i],
                                          metadata |-> prepared_metadatas[i]])]
       /\ others' = Append(others, [id |-> doc_ids[i], call |-> callNo,
                                     at |-> Len(upsert_calls)])
  /\ UNCHANGED <<config, fallback_vars, select_vars, ensure_vars, iter_vars,
                 count_vars, qdrant_vars,
                 embed_vars, status_vars, ident_vars, request_vars, chunk_vars,
                 collections, created, upsert_vars, provider, last_op>>

(* the skip policy, the default ID scheme and the fallback provider *)
InitShared ==
  /\ Init
  /\ OVERWRITE_EXISTING = FALSE
  /\ DOC_ID_FIELDS = <<>>
  /\ embedder = "none"

NextShared ==
  \/ Next
  \/ OtherWrite

SpecShared == InitShared /\ [][NextShared]_vars

TypeOK ==
  /\ pc \in {"idle", "resolve", "create", "prepare", "check", "filter",
             "embed", "write", "done", "raised"}
  /\ callNo \in 0..MaxCalls
  /\ Len(doc_ids) = Len(prepared_metadatas)

----------------------------------------------------------------------------
(* _ChromaBackend._request, lines 145-169: the retry loop of one request.   *)
(* An attempt ends in a response (a JSON body, an empty body, a body that   *)
(* is not JSON), in an HTTPError, in a URLError, in a TimeoutError, or in   *)
(* an exception of another type.                                            *)

Responses == {"json", "empty", "not_json"}
Outcomes == Responses \cup {"http_error", "url_error", "timeout", "other_error"}

(* mutant of retryable: an HTTP error is retried like a connection error *)
retryable_AnyError(outcome) == outcome \in {"url_error", "timeout", "http_error"}

(* lines 160-163: the exceptions the loop catches and retries *)
retryable(outcome) == outcome \in {"url_error", "timeout"}

(* mutant of attempts_of: one attempt more than configured *)
attempts_of_Extra(retries) == Max(1, retries) + 1

(* line 146 *)
attempts_of(retries) == Max(1, retries)

(* line 166 *)
delay_of(retry_delay) == Max(1, retry_delay)

(* lines 150-156: what _request returns for a response *)
result_of(response) ==
  CASE response = "json" -> "parsed_body"
    [] response = "empty" -> "status_only"
    [] response = "not_json" -> "status_and_raw"

(* lines 159, 161, 163: the error built for an exception *)
error_of(outcome) ==
  CASE outcome = "http_error" -> "HTTP error"
    [] outcome = "url_error" -> "Connection failed"
    [] outcome = "timeout" -> "Connection timed out"
    [] OTHER -> outcome

AttemptEvent(outcome) == [kind |-> "attempt", outcome |-> outcome, delay |-> 0]
SleepEvent(delay) == [kind |-> "sleep", outcome |-> "", delay |-> delay]

InitRequest ==
  /\ HTTP_RETRIES \in 1..MaxRetries
  /\ HTTP_RETRY_DELAY \in 1..MaxDelay
  /\ rq_pc = "idle"
  /\ attempt = 0
  /\ attempts = 0
  /\ last_error = "none"
  /\ rq_result = "none"
  /\ rq_error = "none"
  /\ rq_events = <<>>

(* lines 145-147: enter the loop *)
RequestStart ==
  /\ rq_pc = "idle"
  /\ last_error' = "none"
  /\ attempts' = attempts_of(HTTP_RETRIES)
  /\ attempt' = 1
  /\ rq_pc' = "attempt"
  /\ UNCHANGED <<config, more_vars, embed_vars, status_vars, ident_vars, backend, upsert_vars, provider, last_op, chunk_vars,
                 HTTP_RETRIES, HTTP_RETRY_DELAY, rq_result, rq_error, rq_events>>

(* lines 148-163: one attempt *)
RequestAttempt ==
  /\ rq_pc = "attempt"
  /\ \E outcome \in Outcomes :
       /\ rq_events' = Append(rq_events, AttemptEvent(outcome))
       /\ IF outcome \in Responses
          THEN /\ rq_pc' = "returned"
               /\ rq_result' = result_of(outcome)
               /\ UNCHANGED <<last_error, rq_error>>
          ELSE IF retryable(outcome)
          THEN /\ last_error' = error_of(outcome)
               /\ rq_pc' = "backoff"
               /\ UNCHANGED <<rq_result, rq_error>>
          ELSE /\ rq_pc' = "raised"
               /\ rq_error' = error_of(outcome)
               /\ UNCHANGED <<last_error, rq_result>>
  /\ UNCHANGED <<config, more_vars, embed_vars, status_vars, ident_vars, backend, upsert_vars, provider, last_op, chunk_vars,
                 HTTP_RETRIES, HTTP_RETRY_DELAY, attempt, attempts>>

(* lines 165-166 and the loop header: sleep if attempts remain, go on *)
RequestBackoff ==
  /\ rq_pc = "backoff"
  /\ rq_events' = IF attempt < attempts
                  THEN Append(rq_events, SleepEvent(delay_of(HTTP_RETRY_DELAY)))
                  ELSE rq_events
  /\ IF attempt < attempts
     THEN attempt' = attempt + 1 /\ rq_pc' = "attempt"
     ELSE attempt' = attempt /\ rq_pc' = "exhausted"
  /\ UNCHANGED <<config, more_vars, embed_vars, status_vars, ident_vars, backend, upsert_vars, provider, last_op, chunk_vars,
                 HTTP_RETRIES, HTTP_RETRY_DELAY, attempts, last_error,
                 rq_result, rq_error>>

(* lines 167-169 *)
RequestGiveUp ==
  /\ rq_pc = "exhausted"
  /\ rq_error' = IF last_error # "none" THEN last_error
                 ELSE "failed without specific error"
  /\ rq_pc' = "raised"
  /\ UNCHANGED <<config, more_vars, embed_vars, status_vars, ident_vars, backend, upsert_vars, provider, last_op, chunk_vars,
                 HTTP_RETRIES, HTTP_RETRY_DELAY, attempt, attempts, last_error,
                 rq_result, rq_events>>

(* the client is constructed and idle, with the default policy *)
InitIdle ==
  /\ OVERWRITE_EXISTING = FALSE
  /\ DOC_ID_FIELDS = <<>>
  /\ UPSERT_BATCH_SIZE = MaxBatch
  /\ InitUpsert
  /\ embedder = "none"
  /\ embedder_failed = FALSE
  /\ last_op = NoOp
  /\ DefaultSizing

NextRequest ==
  \/ RequestStart
  \/ RequestAttempt
  \/ RequestBackoff
  \/ RequestGiveUp

InitRequestLoop ==
  InitIdle /\ EXISTING_ID_BATCH_SIZE = MaxCheckBatch /\ InitRequest /\ ExistingOff
    /\ EmbedOff /\ StatusOff /\ IdsOff /\ MoreOff

SpecRequest == InitRequestLoop /\ [][NextRequest]_vars

----------------------------------------------------------------------------
(* existing_ids of the adapters, lines 226-240 and 409-420, request by      *)
(* request.  The collection holds the IDs ex_stored; a request for a chunk  *)
(* answers with the IDs of the chunk that are stored, as a flat list or     *)
(* nested in a list (lines 236-238), or fails.                              *)

IdList(n) == [i \in 1..n |-> i]

InitExisting ==
  /\ EXISTING_ID_BATCH_SIZE \in 1..MaxCheckBatch
  /\ ex_pc = "idle"
  /\ ex_ids \in {IdList(n) : n \in 0..MaxIds}
  /\ ex_stored \in SUBSET (1..MaxIds)
  /\ ex_chunks = <<>>
  /\ ex_next = 0
  /\ matches = {}
  /\ ex_requests = <<>>

(* lines 227-230: empty input returns at once; otherwise chunk the IDs *)
ExistingStart ==
  /\ ex_pc = "idle"
  /\ IF ex_ids = <<>>
     THEN ex_pc' = "returned" /\ ex_chunks' = <<>> /\ ex_next' = 0
     ELSE /\ ex_pc' = "loop"
          /\ ex_chunks' = chunk_items(ex_ids, EXISTING_ID_BATCH_SIZE)
          /\ ex_next' = 1
  /\ matches' = {}
  /\ UNCHANGED <<config, more_vars, embed_vars, status_vars, ident_vars, backend, upsert_vars, provider, last_op, request_vars,
                 ex_ids, ex_stored, ex_requests>>

(* lines 236-239: the IDs of a response *)
raw_ids_of(response) ==
  IF response.ids # <<>> /\ response.nested THEN response.ids[1] ELSE response.ids

(* the stored IDs of a chunk, in chunk order *)
Found(chunk, stored) == SelectSeq(chunk, LAMBDA id : id \in stored)

(* lines 230-239: the request for the next chunk *)
ExistingRequest ==
  /\ ex_pc = "loop"
  /\ ex_next <= Len(ex_chunks)
  /\ LET chunk == ex_chunks[ex_next]
     IN /\ ex_requests' = Append(ex_requests, [ids |-> chunk, limit |-> Len(chunk)])
        /\ \/ \E nested \in BOOLEAN :
                LET found == Found(chunk, ex_stored)
                    response == IF nested
                                THEN [nested |-> TRUE, ids |-> <<found>>]
                                ELSE [nested |-> FALSE, ids |-> found]
                IN /\ matches' = matches \cup Range(raw_ids_of(response))
                   /\ ex_next' = ex_next + 1
                   /\ ex_pc' = "loop"
           \/ /\ ex_pc' = "raised"
              /\ UNCHANGED <<matches, ex_next>>
  /\ UNCHANGED <<config, more_vars, embed_vars, status_vars, ident_vars, backend, upsert_vars, provider, last_op, request_vars,
                 ex_ids, ex_stored, ex_chunks>>

(* line 240 *)
ExistingReturn ==
  /\ ex_pc = "loop"
  /\ ex_next > Len(ex_chunks)
  /\ ex_pc' = "returned"
  /\ UNCHANGED <<config, more_vars, embed_vars, status_vars, ident_vars, backend, upsert_vars, provider, last_op, request_vars,
                 ex_ids, ex_stored, ex_chunks, ex_next, matches, ex_requests>>

NextExisting ==
  \/ ExistingStart
  \/ ExistingRequest
  \/ ExistingReturn

InitExistingLoop ==
  InitIdle /\ RequestOff /\ InitExisting /\ EmbedOff /\ StatusOff /\ IdsOff
    /\ MoreOff

SpecExisting == InitExistingLoop /\ [][NextExisting]_vars

----------------------------------------------------------------------------
(* The embedding provider of one client, lines 506, 524-525 and 699-711:    *)
(* the client is constructed with a dimension argument and a                *)
(* CODEX_VECTOR_DIM setting, and its _embed_documents is called.            *)

(* the default policy of the module configuration *)
DefaultPolicy ==
  /\ OVERWRITE_EXISTING = FALSE
  /\ DOC_ID_FIELDS = <<>>
  /\ UPSERT_BATCH_SIZE = MaxBatch
  /\ EXISTING_ID_BATCH_SIZE = MaxCheckBatch

Dims == {-1, 0, 128}
DimChoices == {NoDim} \cup {SomeDim(v) : v \in Dims}
ModelDims == {DEFAULT_DIMENSION, 768}

EmbedTexts ==
  {<<>>} \cup {<<c>> : c \in Contents} \cup {<<c, Other(c)>> : c \in Contents}

(* __init__, lines 506 and 524-525: the constructor stores the dimension    *)
(* and the loaded model (None when it could not be loaded); it has no       *)
(* check of the dimension                                                   *)
InitEmbed ==
  /\ ctor \in [dimension : DimChoices, env : DimChoices]
  /\ dimension = dimension_of(ctor.dimension, ctor.env)
  /\ embedder \in {"none", "model"}
  /\ embedder_failed = FALSE
  /\ model_dimension \in (IF embedder = "none" THEN {DEFAULT_DIMENSION} ELSE ModelDims)
  /\ em_log = <<>>

(* _embed_documents(texts), lines 699-711 *)
Embed(texts) ==
  /\ Len(em_log) < MaxEmbeds
  /\ \E e \in embed_documents(texts, embedder, embedder_failed,
                              dimension, model_dimension) :
       /\ embedder_failed' = e.failed
       /\ em_log' = Append(em_log, [texts |-> texts, primary |-> e.primary,
                                    raised |-> e.raised, vectors |-> e.vectors,
                                    error |-> e.error, failed |-> e.failed])
  /\ embedder' = embedder
  /\ UNCHANGED <<config, more_vars, backend, upsert_vars, last_op, request_vars, chunk_vars,
                 status_vars, ident_vars>>

CallEmbed == \E texts \in EmbedTexts : Embed(texts)

NextEmbed == CallEmbed

InitEmbedLoop ==
  DefaultPolicy /\ InitUpsert /\ last_op = NoOp /\ RequestOff /\ ExistingOff
    /\ StatusOff /\ IdsOff /\ MoreOff /\ InitEmbed

SpecEmbed == InitEmbedLoop /\ [][NextEmbed]_vars

----------------------------------------------------------------------------
(* status of the adapters, lines 173-189 and 374-387, request by request,   *)
(* and the summary CodexVectorClient.status prints (529-552).  The Chroma   *)
(* adapter asks for the identity and the collection list, the Qdrant        *)
(* adapter for the collection list; then each asks for the count of every   *)
(* listed collection in turn.  Every request returns or raises.             *)

StatusNames == <<"a", "b", "c", "d", "e">>

InitStatus ==
  /\ st_backend \in {"chroma", "qdrant"}
  /\ st_pc = IF st_backend = "chroma" THEN "identity" ELSE "list"
  /\ st_names \in {SubSeq(StatusNames, 1, n) : n \in 0..MaxColls}
  /\ st_next = 0
  /\ st_items = <<>>
  /\ st_failed = ""
  /\ st_net = <<>>

(* line 174 *)
StatusIdentity ==
  /\ st_pc = "identity"
  /\ st_net' = Append(st_net, Request("identity", 0))
  /\ \/ st_pc' = "list"
     \/ st_pc' = "raised"
  /\ UNCHANGED <<config, more_vars, backend, upsert_vars, provider, last_op, request_vars,
                 chunk_vars, embed_vars, ident_vars,
                 st_backend, st_names, st_next, st_items, st_failed>>

(* lines 175 and 375 *)
StatusList ==
  /\ st_pc = "list"
  /\ st_net' = Append(st_net, Request("list", 0))
  /\ \/ st_pc' = "count" /\ st_next' = 1
     \/ st_pc' = "raised" /\ st_next' = st_next
  /\ UNCHANGED <<config, more_vars, backend, upsert_vars, provider, last_op, request_vars,
                 chunk_vars, embed_vars, ident_vars,
                 st_backend, st_names, st_items, st_failed>>

(* lines 179 and 379: collection_count is called inside the loop with no    *)
(* handler, so its exception leaves the loop and status                     *)
count_failure(pos) == [pc |-> "raised", next |-> pos]

(* lines 178-180 and 377-379: the count of the next collection; the count   *)
(* lookup (215-224, 405-407) returns a number or raises                     *)
StatusCount ==
  /\ st_pc = "count"
  /\ st_next <= Len(st_names)
  /\ st_net' = Append(st_net, Request("count", 0))
  /\ LET name == st_names[st_next]
     IN \/ \E count \in 0..MaxCount :
             /\ st_items' = Append(st_items, [name |-> name, id |-> name, count |-> count])
             /\ st_next' = st_next + 1
             /\ st_pc' = "count"
             /\ st_failed' = st_failed
        \/ /\ st_pc' = count_failure(st_next).pc
           /\ st_next' = count_failure(st_next).next
           /\ st_failed' = name
           /\ st_items' = st_items
  /\ UNCHANGED <<config, more_vars, backend, upsert_vars, provider, last_op, request_vars,
                 chunk_vars, embed_vars, ident_vars, st_backend, st_names>>

(* lines 182-189 and 381-387, printed by lines 529-552 *)
StatusReturn ==
  /\ st_pc = "count"
  /\ st_next > Len(st_names)
  /\ st_pc' = "returned"
  /\ UNCHANGED <<config, more_vars, backend, upsert_vars, provider, last_op, request_vars,
                 chunk_vars, embed_vars, ident_vars,
                 st_backend, st_names, st_next, st_items, st_failed, st_net>>

NextStatus ==
  \/ StatusIdentity
  \/ StatusList
  \/ StatusCount
  \/ StatusReturn

InitStatusLoop ==
  InitIdle /\ EXISTING_ID_BATCH_SIZE = MaxCheckBatch /\ RequestOff /\ ExistingOff
    /\ EmbedOff /\ IdsOff /\ MoreOff /\ InitStatus

SpecStatus == InitStatusLoop /\ [][NextStatus]_vars

----------------------------------------------------------------------------
(* _build_doc_id, lines 713-751, applied to two inputs under one            *)
(* configuration of DOC_ID_FIELDS.  An input is the content, the metadata   *)
(* and the metadata_source of a document.                                   *)

Positions == {0, 1}

(* a metadata map with or without source, position, an extra key, and an    *)
(* empty doc_id                                                             *)
MetaOf(has_source, positions, has_extra, has_doc_id) ==
  LET m1 == IF has_source THEN Put(EmptyMap, "source", "example") ELSE EmptyMap
      m2 == IF positions = {} THEN m1
            ELSE Put(m1, "position", CHOOSE q \in positions : TRUE)
      m3 == IF has_extra THEN Put(m2, "extra", "x") ELSE m2
  IN IF has_doc_id THEN Put(m3, "doc_id", RawId("")) ELSE m3

IdInputs ==
  {[content |-> c, metadata |-> MetaOf(s, q, x, d), metadata_source |-> src] :
     c \in Contents, s \in BOOLEAN,
     q \in {{}} \cup {{v} : v \in Positions},
     x \in BOOLEAN, d \in BOOLEAN, src \in {""} \cup Sources}

InitIds ==
  /\ OVERWRITE_EXISTING = FALSE
  /\ DOC_ID_FIELDS \in {<<>>, <<"source", "position">>}
  /\ UPSERT_BATCH_SIZE = MaxBatch
  /\ EXISTING_ID_BATCH_SIZE = MaxCheckBatch
  /\ id_pc = "input"
  /\ id_a \in IdInputs
  /\ id_b \in IdInputs
  /\ id_out = <<>>

(* lines 713-724 for both inputs *)
ComputeIds ==
  /\ id_pc = "input"
  /\ id_out' = <<build_doc_id(DOC_ID_FIELDS, id_a.content, id_a.metadata,
                              id_a.metadata_source),
                 build_doc_id(DOC_ID_FIELDS, id_b.content, id_b.metadata,
                              id_b.metadata_source)>>
  /\ id_pc' = "computed"
  /\ UNCHANGED <<config, more_vars, backend, upsert_vars, provider, last_op, request_vars,
                 chunk_vars, embed_vars, status_vars, id_a, id_b>>

NextIds == ComputeIds

InitIdsLoop ==
  /\ InitIds
  /\ InitUpsert
  /\ InitProvider
  /\ last_op = NoOp
  /\ DefaultSizing
  /\ RequestOff
  /\ ExistingOff
  /\ EmbedOff
  /\ StatusOff
  /\ MoreOff

SpecIds == InitIdsLoop /\ [][NextIds]_vars

----------------------------------------------------------------------------
(* The preparation loop of upsert, lines 592-611, applied to a call of two  *)
(* documents with the caller's metadata_items, under one configuration of   *)
(* DOC_ID_FIELDS.                                                           *)

(* what the caller may have put under "doc_id": nothing, an empty string, a *)
(* string, a number                                                         *)
DocIdValues == {RawId(""), RawId("mine"), NumberId("7")}

CallerMeta(supplied_ids, positions, has_extra) ==
  LET m1 == IF positions = {} THEN EmptyMap
            ELSE Put(EmptyMap, "position", CHOOSE q \in positions : TRUE)
      m2 == IF has_extra THEN Put(m1, "extra", "x") ELSE m1
  IN IF supplied_ids = {} THEN m2
     ELSE Put(m2, "doc_id", CHOOSE v \in supplied_ids : TRUE)

CallerInputs ==
  {[content |-> c, metadata |-> CallerMeta(d, q, x), metadata_source |-> src] :
     c \in Contents,
     d \in {{}} \cup {{v} : v \in DocIdValues},
     q \in {{}, {0}}, x \in BOOLEAN, src \in {""} \cup Sources}

InitPrepare ==
  /\ OVERWRITE_EXISTING = FALSE
  /\ DOC_ID_FIELDS \in {<<>>, <<"source", "position">>, <<"doc_id">>}
  /\ UPSERT_BATCH_SIZE = MaxBatch
  /\ EXISTING_ID_BATCH_SIZE = MaxCheckBatch
  /\ id_pc = "input"
  /\ id_a \in CallerInputs
  /\ id_b \in CallerInputs
  /\ id_a.metadata_source = id_b.metadata_source
  /\ id_out = <<>>

(* the metadata_items of the call *)
ItemsOf(a, b) == SomeItems(<<a.metadata, b.metadata>>)

(* lines 592-611 for the two documents, at indexes 0 and 1 *)
PrepareTwo ==
  /\ id_pc = "input"
  /\ id_out' = <<prepared_of(DOC_ID_FIELDS, 0, id_a.content, id_a.metadata_source,
                             ItemsOf(id_a, id_b)),
                 prepared_of(DOC_ID_FIELDS, 1, id_b.content, id_b.metadata_source,
                             ItemsOf(id_a, id_b))>>
  /\ id_pc' = "prepared"
  /\ UNCHANGED <<config, more_vars, backend, upsert_vars, provider, last_op, request_vars,
                 chunk_vars, embed_vars, status_vars, id_a, id_b>>

NextPrepare == PrepareTwo

InitPrepareLoop ==
  /\ InitPrepare
  /\ InitUpsert
  /\ embedder = "none"
  /\ embedder_failed = FALSE
  /\ last_op = NoOp
  /\ DefaultSizing
  /\ RequestOff
  /\ ExistingOff
  /\ EmbedOff
  /\ StatusOff
  /\ MoreOff

SpecPrepare == InitPrepareLoop /\ [][NextPrepare]_vars

----------------------------------------------------------------------------
(* _ChromaBackend.collection_count, lines 215-224: one count request sent   *)
(* through _request (145-169), and what the call makes of the response.     *)
(* The JSON body of a count response is a bare integer, an object with a    *)
(* "count" entry (an integer, or a value int() rejects), or an object       *)
(* without one.                                                             *)

BareCount(n) == [type |-> "int", has_count |-> FALSE, numeric |-> TRUE, value |-> n]
WrappedCount(n) == [type |-> "object", has_count |-> TRUE, numeric |-> TRUE, value |-> n]
NullCount == [type |-> "object", has_count |-> TRUE, numeric |-> FALSE, value |-> 0]
(* an object without "count": {"status": ...} of lines 150-151 and 156 *)
StatusObject == [type |-> "object", has_count |-> FALSE, numeric |-> FALSE, value |-> 0]

CountBodies ==
  {BareCount(n) : n \in 0..MaxCount} \cup {WrappedCount(n) : n \in 0..MaxCount}
    \cup {NullCount, StatusObject}

(* lines 150-156: the value _request returns for the response *)
response_of(result, body) == IF result = "parsed_body" THEN body ELSE StatusObject

(* lines 220-224: response.get("count", response) needs a dict; int() of a  *)
(* dict or of a value that is no number is caught and gives 0               *)
count_of(response) ==
  IF response.type # "object"
  THEN [raised |-> "AttributeError", value |-> 0]
  ELSE IF response.has_count /\ response.numeric
  THEN [raised |-> "none", value |-> response.value]
  ELSE [raised |-> "none", value |-> 0]

InitCount ==
  /\ cnt_pc = "call"
  /\ cnt_body \in CountBodies
  /\ cnt_ret = 0
  /\ cnt_error = "none"

(* lines 216-224, after _request has returned or raised *)
CountFinish ==
  /\ cnt_pc = "call"
  /\ rq_pc \in {"returned", "raised"}
  /\ IF rq_pc = "raised"
     THEN /\ cnt_pc' = "raised"
          /\ cnt_error' = rq_error
          /\ cnt_ret' = cnt_ret
     ELSE LET r == count_of(response_of(rq_result, cnt_body))
          IN IF r.raised # "none"
             THEN /\ cnt_pc' = "raised"
                  /\ cnt_error' = r.raised
                  /\ cnt_ret' = cnt_ret
             ELSE /\ cnt_pc' = "returned"
                  /\ cnt_ret' = r.value
                  /\ cnt_error' = cnt_error
  /\ UNCHANGED <<config, backend, upsert_vars, provider, last_op, request_vars,
                 chunk_vars, embed_vars, status_vars, ident_vars, fallback_vars,
                 select_vars, ensure_vars, iter_vars, shared_vars, qdrant_vars,
                 cnt_body>>

NextCount ==
  \/ RequestStart
  \/ RequestAttempt
  \/ RequestBackoff
  \/ RequestGiveUp
  \/ CountFinish

InitCountLoop ==
  InitIdle /\ EXISTING_ID_BATCH_SIZE = MaxCheckBatch /\ InitRequest /\ ExistingOff
    /\ EmbedOff /\ StatusOff /\ IdsOff /\ FallbackOff /\ SelectOff /\ EnsureOff
    /\ IterOff /\ Alone /\ QdrantOff /\ InitCount

SpecCount == InitCountLoop /\ [][NextCount]_vars

----------------------------------------------------------------------------
(* _QdrantBackend.upsert, query and iter_metadata, lines 422-476: one batch *)
(* of one or two points is written into an empty collection and read back.  *)
(* The metadata maps are the caller's: any of "source", "document" and      *)
(* "doc_id" may be among their keys.                                        *)

QdrantIds == <<"p1", "p2">>
QdrantKeys == {"source", "document", "doc_id"}

QdrantMeta(keys) ==
  [key \in keys |-> CASE key = "source" -> "example"
                      [] key = "document" -> "own"
                      [] key = "doc_id" -> "mine"]

QdrantMetas == {QdrantMeta(keys) : keys \in SUBSET QdrantKeys}

(* the arguments of upsert, zipped (line 431) *)
QdrantBatches ==
  UNION {[1..n -> [document : Contents, metadata : QdrantMetas]] : n \in 1..2}

InitQdrant ==
  /\ qd_pc = "input"
  /\ \E batch \in QdrantBatches :
       qd_in = [i \in DOMAIN batch |->
                  [id |-> QdrantIds[i], document |-> batch[i].document,
                   metadata |-> batch[i].metadata]]
  /\ qd_points = EmptyMap
  /\ qd_read = "none"
  /\ qd_out = <<>>

(* lines 432-433: payload = dict(metadata); payload["document"] = document *)
payload_of(metadata, document) == Put(metadata, "document", document)

(* lines 447 and 472: the payload without its "document" entry *)
strip_document(payload) == Without(payload, "document")

(* line 448: payload.get("document", "") *)
document_of(payload) == IF Has(payload, "document") THEN payload["document"] ELSE ""

(* lines 430-435 *)
QdrantUpsert ==
  /\ qd_pc = "input"
  /\ qd_points' = [id \in {qd_in[i].id : i \in DOMAIN qd_in} |->
                     LET i == CHOOSE j \in DOMAIN qd_in : qd_in[j].id = id
                     IN payload_of(qd_in[i].metadata, qd_in[i].document)]
  /\ qd_pc' = "stored"
  /\ UNCHANGED <<config, backend, upsert_vars, provider, last_op, request_vars,
                 chunk_vars, embed_vars, status_vars, ident_vars, fallback_vars,
                 select_vars, ensure_vars, iter_vars, shared_vars, count_vars,
                 qd_in, qd_read, qd_out>>

(* lines 437-456 *)
QdrantQuery(limit) ==
  /\ qd_pc \in {"stored", "read"}
  /\ \E results \in Rankings(DOMAIN qd_points,
                              Min(limit, Cardinality(DOMAIN qd_points))) :
       qd_out' = [k \in DOMAIN results |->
                    [of |-> results[k],
                     document |-> document_of(qd_points[results[k]]),
                     distance |-> k,
                     metadata |-> strip_document(qd_points[results[k]])]]
  /\ qd_read' = "query"
  /\ qd_pc' = "read"
  /\ UNCHANGED <<config, backend, upsert_vars, provider, last_op, request_vars,
                 chunk_vars, embed_vars, status_vars, ident_vars, fallback_vars,
                 select_vars, ensure_vars, iter_vars, shared_vars, count_vars,
                 qd_in, qd_points>>

(* the points of the collection in the order scroll walks them *)
Scrolled == SelectSeq(QdrantIds, LAMBDA id : id \in DOMAIN qd_points)

(* lines 459-476: the records of the pages from next_offset on, each page   *)
(* of at most batch_size records, until a page is empty or is the last      *)
RECURSIVE scroll_from(_, _, _)
scroll_from(records, next_offset, batch_size) ==
  LET page == Slice(records, next_offset, batch_size)
  IN IF page = <<>> THEN <<>>
     ELSE IF next_offset + batch_size >= Len(records) THEN page
     ELSE page \o scroll_from(records, next_offset + batch_size, batch_size)

(* lines 458-476, drained by its caller *)
QdrantIterMetadata(batch_size) ==
  /\ qd_pc \in {"stored", "read"}
  /\ qd_out' = LET records == scroll_from(Scrolled, 0, batch_size)
               IN [k \in DOMAIN records |->
                     [of |-> records[k],
                      metadata |-> SetDefault(strip_document(qd_points[records[k]]),
                                              "doc_id", records[k])]]
  /\ qd_read' = "iter_metadata"
  /\ qd_pc' = "read"
  /\ UNCHANGED <<config, backend, upsert_vars, provider, last_op, request_vars,
                 chunk_vars, embed_vars, status_vars, ident_vars, fallback_vars,
                 select_vars, ensure_vars, iter_vars, shared_vars, count_vars,
                 qd_in, qd_points>>

CallQdrantQuery == \E limit \in 1..MaxLimit : QdrantQuery(limit)
CallQdrantIterMetadata == \E batch_size \in 1..MaxPage : QdrantIterMetadata(batch_size)

NextQdrant ==
  \/ QdrantUpsert
  \/ CallQdrantQuery
  \/ CallQdrantIterMetadata

InitQdrantLoop ==
  InitIdle /\ EXISTING_ID_BATCH_SIZE = MaxCheckBatch /\ RequestOff /\ ExistingOff
    /\ EmbedOff /\ StatusOff /\ IdsOff /\ FallbackOff /\ SelectOff /\ EnsureOff
    /\ IterOff /\ Alone /\ CountOff /\ InitQdrant

SpecQdrant == InitQdrantLoop /\ [][NextQdrant]_vars

----------------------------------------------------------------------------
(* Helpers of the properties *)

CeilDiv(n, b) == (n + b - 1) \div b

RECURSIVE ConcatIds(_)
ConcatIds(calls) ==
  IF calls = <<>> THEN <<>> ELSE Head(calls).ids \o ConcatIds(Tail(calls))

RECURSIVE ConcatDocs(_)
ConcatDocs(calls) ==
  IF calls = <<>> THEN <<>> ELSE Head(calls).documents \o ConcatDocs(Tail(calls))

RECURSIVE ConcatMetas(_)
ConcatMetas(calls) ==
  IF calls = <<>> THEN <<>> ELSE Head(calls).metadatas \o ConcatMetas(Tail(calls))

(* the IDs upsert computes for the documents of a call *)
InputIds(a) ==
  LET texts == SelectSeq(a.documents, LAMBDA doc : doc # "")
  IN [i \in 1..Len(texts) |->
        prepared_of(DOC_ID_FIELDS, i - 1, texts[i],
                    a.metadata_source, a.metadata_items).id]

StoredIds == DOMAIN store[args.name_or_id]
StoredBefore == DOMAIN backend0.store[args.name_or_id]
SameAsPrev == prev.some /\ prev.args = args
BackendUnchanged ==
  collections = backend0.collections /\ store = backend0.store

AllEmpty(documents) == \A i \in DOMAIN documents : documents[i] = ""
CountNonEmpty(documents) ==
  Cardinality({i \in DOMAIN documents : documents[i] # ""})
(* the call is one the claims describe as rejected: the count of            *)
(* metadata_items is compared with the documents the caller passed          *)
Mismatched(a) ==
  \/ AllEmpty(a.documents)
  \/ a.metadata_items.some
       /\ Len(a.metadata_items.items) # Len(a.documents)

(* the call is one the code rejects *)
Invalid(a) ==
  \/ AllEmpty(a.documents)
  \/ a.metadata_items.some
       /\ Len(a.metadata_items.items) # CountNonEmpty(a.documents)

----------------------------------------------------------------------------
(* C1: under the skip policy, an upsert call that repeats the input of the  *)
(* previous, successful call issues no backend upsert call and no embedding *)
(* call and leaves the backend unchanged; when none of the IDs was stored   *)
(* before the first call, the writes of the two calls together are the      *)
(* input documents, each once.                                              *)
C1_SkipRepeatWritesNothing ==
  (~OVERWRITE_EXISTING /\ SameAsPrev /\ prev.outcome = "done") =>
    /\ upsert_calls = <<>>
    /\ embed_calls = <<>>
    /\ BackendUnchanged
    /\ (Range(InputIds(args)) \cap DOMAIN prev.before.store[args.name_or_id] = {}
          => /\ ConcatIds(prev.upsert_calls) \o ConcatIds(upsert_calls) = InputIds(args)
             /\ \A k \in DOMAIN prev.upsert_calls : prev.upsert_calls[k].ok)

C1_Witness ==
  /\ ~OVERWRITE_EXISTING /\ SameAsPrev /\ prev.outcome = "done"
  /\ Len(prev.upsert_calls) >= 2
  /\ pc = "done"
  /\ message.kind = "all_present"

(* C2: an upsert of N non-empty documents none of whose IDs exist, with     *)
(* batch size B, issues ceil(N/B) backend upsert calls of at most B ids     *)
(* each, which together carry the input IDs and documents once, in input    *)
(* order.                                                                   *)
C2_Batching ==
  (pc = "done" /\ message.kind = "upserted" /\ existing = {}) =>
    /\ Len(upsert_calls) = CeilDiv(Len(docs), UPSERT_BATCH_SIZE)
    /\ \A k \in DOMAIN upsert_calls :
         /\ upsert_calls[k].ok
         /\ Len(upsert_calls[k].ids) >= 1
         /\ Len(upsert_calls[k].ids) <= UPSERT_BATCH_SIZE
    /\ ConcatIds(upsert_calls) = doc_ids
    /\ ConcatDocs(upsert_calls) = docs
    /\ Len(doc_ids) = Len(docs)

C2_Witness ==
  /\ pc = "done" /\ message.kind = "upserted" /\ existing = {}
  /\ Len(docs) = 3
  /\ UPSERT_BATCH_SIZE = 2
  /\ Len(upsert_calls) = 2

(* C3: when the backend write of batch k fails, the call raises, nothing is *)
(* embedded or requested after it, and the backend holds what the writes of *)
(* batches 1..k-1 stored.                                                   *)
C3_FailedBatchRaises ==
  \A k \in DOMAIN upsert_calls :
    ~upsert_calls[k].ok =>
      /\ pc = "raised"
      /\ k = Len(upsert_calls)
      /\ Len(embed_calls) = k
      /\ net[Len(net)] = Request("upsert", Len(upsert_calls[k].ids))
      /\ collections = backend0.collections \cup {collection_id}
      /\ LET done == SubSeq(upsert_calls, 1, k - 1)
         IN /\ \A j \in DOMAIN done : done[j].ok
            /\ ConcatIds(done) = SubSeq(ids_to_upsert, 1, (k - 1) * UPSERT_BATCH_SIZE)
            /\ store[collection_id] =
                 StoreAll(backend0.store[collection_id], ConcatIds(done),
                          ConcatDocs(done), ConcatMetas(done))

C3_Witness ==
  /\ pc = "raised"
  /\ Len(upsert_calls) = 2
  /\ ~upsert_calls[2].ok
  /\ store # backend0.store

(* C4: under the skip policy, a call that re-submits the input of a failed  *)
(* call writes no document whose ID is already stored and, when it          *)
(* succeeds, writes exactly the documents whose ID was not stored; after    *)
(* the successful attempt every input ID is stored and no document was      *)
(* written more than once over the attempts.                                *)
C4_RetryAfterFailure ==
  (~OVERWRITE_EXISTING /\ SameAsPrev /\ prev.outcome = "raised") =>
    /\ \A k \in DOMAIN upsert_calls :
         Range(upsert_calls[k].ids) \cap StoredBefore = {}
    /\ pc = "done" =>
         /\ ConcatIds(upsert_calls) =
              SelectSeq(doc_ids, LAMBDA id : id \notin StoredBefore)
         /\ Range(doc_ids) \subseteq StoredIds
         /\ Range(doc_ids) = Range(InputIds(args))
         /\ \A i \in DOMAIN written : written[i] <= 1

C4_Witness ==
  /\ ~OVERWRITE_EXISTING /\ SameAsPrev /\ prev.outcome = "raised"
  /\ Len(prev.upsert_calls) = 2
  /\ prev.upsert_calls[1].ok
  /\ pc = "done"
  /\ message.kind = "upserted"
  /\ message.skipped >= 1
  /\ upsert_calls # <<>>

(* C5: a request whose every attempt fails with a connection failure or a  *)
(* timeout is attempted max(1, HTTP_RETRIES) times, with the one fixed      *)
(* delay between consecutive attempts and none after the last, and raises   *)
(* the last error; a request whose attempt i gets a response returns it and *)
(* attempt i is its last.                                                   *)
AttemptsIn(events) == SelectSeq(events, LAMBDA e : e.kind = "attempt")

Alternating(events, delay) ==
  \A i \in DOMAIN events :
    IF i % 2 = 1 THEN events[i].kind = "attempt"
    ELSE events[i] = SleepEvent(delay)

TransientOnly(events) ==
  \A i \in DOMAIN events :
    events[i].kind = "attempt" => events[i].outcome \in {"url_error", "timeout"}

C5_BoundedRetry ==
  /\ (rq_pc = "raised" /\ TransientOnly(rq_events)) =>
       /\ Len(AttemptsIn(rq_events)) = Max(1, HTTP_RETRIES)
       /\ Len(rq_events) = 2 * Max(1, HTTP_RETRIES) - 1
       /\ Alternating(rq_events, Max(1, HTTP_RETRY_DELAY))
       /\ rq_error = IF rq_events[Len(rq_events)].outcome = "timeout"
                     THEN "Connection timed out" ELSE "Connection failed"
       /\ rq_result = "none"
  /\ rq_pc = "returned" =>
       /\ rq_events # <<>>
       /\ rq_events[Len(rq_events)].kind = "attempt"
       /\ rq_events[Len(rq_events)].outcome \in Responses
       /\ rq_result # "none"
       /\ rq_error = "none"
       /\ TransientOnly(SubSeq(rq_events, 1, Len(rq_events) - 1))
       /\ Alternating(rq_events, Max(1, HTTP_RETRY_DELAY))
       /\ Len(AttemptsIn(rq_events)) <= Max(1, HTTP_RETRIES)

C5_Witness ==
  /\ rq_pc = "raised"
  /\ HTTP_RETRIES = 3
  /\ TransientOnly(rq_events)
  /\ Len(rq_events) = 5
  /\ rq_error = "Connection timed out"

(* C6: an HTTP error response on any attempt is raised at that attempt: no *)
(* attempt and no delay follows it, also after earlier attempts failed with *)
(* connection errors and with attempts remaining.                           *)
C6_HttpErrorNotRetried ==
  \A i \in DOMAIN rq_events :
    rq_events[i] = AttemptEvent("http_error") =>
      /\ i = Len(rq_events)
      /\ rq_pc = "raised"
      /\ rq_error = "HTTP error"
      /\ rq_result = "none"

C6_Witness ==
  /\ rq_pc = "raised"
  /\ attempts = 3
  /\ Len(rq_events) = 3
  /\ rq_events[1] = AttemptEvent("url_error")
  /\ rq_events[3] = AttemptEvent("http_error")

(* C7: with DOC_ID_FIELDS = (source, position) and overwrite enabled, a     *)
(* call whose documents have the source and positions of the previous call  *)
(* and other content computes the previous call's IDs, writes them with its *)
(* own content (in one backend write when they fit one batch), and the      *)
(* backend then holds one document per ID, with this call's content.        *)
C7_FieldIdOverwrite ==
  (/\ DOC_ID_FIELDS = <<"source", "position">>
   /\ OVERWRITE_EXISTING
   /\ prev.some
   /\ args = SwapDocs(prev.args)
   /\ args.metadata_source # ""
   /\ pc = "done") =>
    /\ doc_ids = InputIds(prev.args)
    /\ prev.args.documents # args.documents
    /\ (Len(docs) <= UPSERT_BATCH_SIZE => Len(upsert_calls) = 1)
    /\ ConcatIds(upsert_calls) = doc_ids
    /\ ConcatDocs(upsert_calls) = docs
    /\ StoredIds = Range(doc_ids)
    /\ Cardinality(StoredIds) = Len(docs)
    /\ \A i \in DOMAIN docs : store[args.name_or_id][doc_ids[i]].document = docs[i]

C7_Witness ==
  /\ DOC_ID_FIELDS = <<"source", "position">>
  /\ OVERWRITE_EXISTING
  /\ prev.some /\ prev.outcome = "done"
  /\ prev.args.documents = <<"alpha">>
  /\ args.documents = <<"beta">>
  /\ args.metadata_source = "example"
  /\ pc = "done"
  /\ message.replaced = 1
  /\ Len(upsert_calls) = 1

(* C8: existing_ids for n >= 1 IDs with check-batch size C issues           *)
(* ceil(n/C) requests, one per chunk; the chunks are the consecutive slices *)
(* of the input of size C, the last one possibly shorter; the result is the *)
(* union of the IDs returned per chunk, the full input set when all IDs     *)
(* exist; for no IDs it issues no request and returns the empty set.        *)
C8_ExistingIdsChunks ==
  ex_pc = "returned" =>
    LET n == Len(ex_ids)
        size == EXISTING_ID_BATCH_SIZE
    IN /\ Len(ex_requests) = CeilDiv(n, size)
       /\ \A j \in DOMAIN ex_requests :
            /\ ex_requests[j].ids = SubSeq(ex_ids, (j - 1) * size + 1, Min(j * size, n))
            /\ ex_requests[j].limit = Len(ex_requests[j].ids)
            /\ Len(ex_requests[j].ids) >= 1
            /\ j < Len(ex_requests) => Len(ex_requests[j].ids) = size
       /\ matches = {id \in Range(ex_ids) : id \in ex_stored}
       /\ (Range(ex_ids) \subseteq ex_stored => matches = Range(ex_ids))
       /\ (n = 0 => ex_requests = <<>> /\ matches = {})

C8_Witness ==
  /\ ex_pc = "returned"
  /\ Len(ex_ids) = 7
  /\ EXISTING_ID_BATCH_SIZE = 3
  /\ [j \in DOMAIN ex_requests |-> ex_requests[j].limit] = <<3, 3, 1>>
  /\ matches = Range(ex_ids)

(* C9: an upsert call whose document list is empty or holds only empty     *)
(* strings, or whose metadata_items differ in length from the number of     *)
(* documents, raises before any adapter operation: no request, no           *)
(* embedding, no write, and the backend is unchanged.                       *)
C9_ValidationBeforeNetwork ==
  (callNo > 0 /\ Mismatched(args)) =>
    /\ pc = "raised"
    /\ error \in {"no_documents", "metadata_mismatch"}
    /\ net = <<>>
    /\ embed_calls = <<>>
    /\ upsert_calls = <<>>
    /\ BackendUnchanged

(* C10: upsert without create_collection, query_results, collection_count   *)
(* and iter_metadata on a collection name that does not exist raise the     *)
(* not-found error of the lookup (if the lookup request itself does not     *)
(* fail): the call issues the one lookup request and nothing else, creates  *)
(* no collection, embeds nothing, writes nothing.                           *)
C10_NotFound ==
  /\ (/\ callNo > 0 /\ ~Invalid(args) /\ ~args.create_collection
      /\ args.name_or_id \notin backend0.collections
      /\ pc # "resolve") =>
        /\ pc = "raised"
        /\ error \in {"not_found", "transport"}
        /\ net = <<Request("list", 0)>>
        /\ embed_calls = <<>>
        /\ upsert_calls = <<>>
        /\ BackendUnchanged
  /\ (last_op.op # "none" /\ last_op.name \notin collections) =>
        /\ last_op.outcome \in {"not_found", "transport"}
        /\ last_op.net = <<Request("list", 0)>>
        /\ last_op.embeds = <<>>
        /\ last_op.results = <<>>
        /\ last_op.metas = {}
        /\ BackendUnchanged

C10_Witness ==
  /\ pc = "raised" /\ error = "not_found"
  /\ last_op.op = "query_results" /\ last_op.outcome = "not_found"

(* C11: whenever upsert returns without raising, every non-empty input      *)
(* document was passed to a backend write that returned, or was counted as  *)
(* skipped because its ID existed: written + skipped is the number of       *)
(* non-empty input documents, and the report carries the two counts; a      *)
(* batch whose write did not return makes the call raise.                   *)
C11_NoSilentLoss ==
  /\ pc = "done" =>
       /\ Len(docs) = CountNonEmpty(args.documents)
       /\ \A k \in DOMAIN upsert_calls : upsert_calls[k].ok
       /\ IF message.kind = "all_present"
          THEN /\ upsert_calls = <<>>
               /\ message.skipped = Len(docs)
               /\ Range(doc_ids) \subseteq StoredBefore
          ELSE /\ Len(ConcatIds(upsert_calls)) + skipped = Len(docs)
               /\ message.upserted = Len(ConcatIds(upsert_calls))
               /\ message.skipped = skipped
               /\ ConcatIds(upsert_calls) = ids_to_upsert
               /\ ConcatDocs(upsert_calls) = docs_to_upsert
               /\ \A i \in DOMAIN docs :
                    \/ /\ i \in Range(idxs_to_upsert)
                       /\ \E k \in DOMAIN upsert_calls :
                            \E j \in DOMAIN upsert_calls[k].ids :
                              /\ upsert_calls[k].ids[j] = doc_ids[i]
                              /\ upsert_calls[k].documents[j] = docs[i]
                    \/ /\ i \notin Range(idxs_to_upsert)
                       /\ ~OVERWRITE_EXISTING
                       /\ doc_ids[i] \in StoredBefore
  /\ \A k \in DOMAIN upsert_calls : ~upsert_calls[k].ok => pc = "raised"

C11_Witness ==
  /\ pc = "done"
  /\ ~OVERWRITE_EXISTING
  /\ Len(docs) = 3
  /\ skipped = 1
  /\ message.kind = "upserted"
  /\ message.upserted = 2
  /\ Len(upsert_calls) = 2

C14_StatusBestEffort ==
  st_failed # "" =>
    /\ st_pc # "raised"
    /\ st_pc = "returned" =>
         {st_items[k].name : k \in DOMAIN st_items} = Range(st_names) \ {st_failed}

(* C15: with the overwrite policy, a call that returns has embedded and     *)
(* written every non-empty input document, also the ones whose ID existed   *)
(* and also when all of them existed; replaced counts the documents whose   *)
(* ID existed before the call, none is skipped, and the entry stored at     *)
(* each input ID carries content and metadata of this call.                 *)
C15_Overwrite ==
  (OVERWRITE_EXISTING /\ pc = "done") =>
    /\ message.kind = "upserted"
    /\ message.upserted = Len(docs)
    /\ message.skipped = 0 /\ skipped = 0
    /\ message.replaced = CountIn(doc_ids, StoredBefore)
    /\ Len(docs) = CountNonEmpty(args.documents)
    /\ \A k \in DOMAIN upsert_calls : upsert_calls[k].ok
    /\ ConcatIds(upsert_calls) = doc_ids
    /\ ConcatDocs(upsert_calls) = docs
    /\ ConcatMetas(upsert_calls) = prepared_metadatas
    /\ Len(embed_calls) = Len(upsert_calls)
    /\ \A k \in DOMAIN embed_calls : embed_calls[k] = upsert_calls[k].documents
    /\ \A i \in DOMAIN doc_ids :
         /\ doc_ids[i] \in StoredIds
         /\ \E j \in DOMAIN doc_ids :
              /\ doc_ids[j] = doc_ids[i]
              /\ store[args.name_or_id][doc_ids[i]] =
                   [document |-> docs[j], metadata |-> prepared_metadatas[j]]
         /\ store[args.name_or_id][doc_ids[i]].document = docs[i]

C15_Witness ==
  /\ OVERWRITE_EXISTING /\ pc = "done"
  /\ SameAsPrev
  /\ Len(docs) = 2
  /\ Range(doc_ids) \subseteq StoredBefore
  /\ message.replaced = 2
  /\ ConcatIds(upsert_calls) = doc_ids
  /\ Len(embed_calls) >= 1

(* C16: under the skip policy, the documents that are embedded and written  *)
(* are the documents whose ID is not in the existing-ID set: no document    *)
(* whose ID exists is embedded or part of a write, every other document is  *)
(* embedded and written by a call that returns, and nothing is embedded     *)
(* before the filter has run.                                               *)
RECURSIVE ConcatTexts(_)
ConcatTexts(calls) ==
  IF calls = <<>> THEN <<>> ELSE Head(calls) \o ConcatTexts(Tail(calls))

NewIdx == SelectSeq([i \in 1..Len(doc_ids) |-> i], LAMBDA i : doc_ids[i] \notin existing)

C16_SkipFilter ==
  ~OVERWRITE_EXISTING =>
    /\ pc \in {"idle", "resolve", "create", "prepare", "check", "filter"} =>
         embed_calls = <<>> /\ upsert_calls = <<>>
    /\ (pc \in {"embed", "write", "done", "raised"} /\ embed_calls # <<>>) =>
         /\ existing = Range(doc_ids) \cap StoredBefore
         /\ idxs_to_upsert = NewIdx
         /\ docs_to_upsert = [j \in 1..Len(NewIdx) |-> docs[NewIdx[j]]]
         /\ ids_to_upsert = [j \in 1..Len(NewIdx) |-> doc_ids[NewIdx[j]]]
         /\ ConcatTexts(embed_calls) =
              SubSeq(docs_to_upsert, 1, Len(ConcatTexts(embed_calls)))
         /\ \A k \in DOMAIN upsert_calls :
              /\ Range(upsert_calls[k].ids) \cap existing = {}
              /\ upsert_calls[k].documents = embed_calls[k]
         /\ ConcatIds(upsert_calls) =
              SubSeq(ids_to_upsert, 1, Len(ConcatIds(upsert_calls)))
    /\ (pc = "done" /\ message.kind = "upserted") =>
         /\ ConcatTexts(embed_calls) = docs_to_upsert
         /\ ConcatIds(upsert_calls) = ids_to_upsert
         /\ \A k \in DOMAIN upsert_calls : upsert_calls[k].ok
         /\ \A i \in DOMAIN doc_ids :
              doc_ids[i] \notin existing => i \in Range(idxs_to_upsert)

C16_Witness ==
  /\ ~OVERWRITE_EXISTING
  /\ pc = "done" /\ message.kind = "upserted"
  /\ Len(doc_ids) = 3
  /\ Cardinality(existing) = 2
  /\ idxs_to_upsert = <<3>>
  /\ embed_calls = <<<<docs[3]>>>>

(* C17: with no configured ID fields, the ID is a function of the content,  *)
(* the metadata without doc_id and the fallback namespace: two inputs that  *)
(* agree on the three get the same ID, and two inputs that differ in the    *)
(* content only get different IDs.                                          *)
SameButDocId(a, b) ==
  /\ Without(a.metadata, "doc_id") = Without(b.metadata, "doc_id")
  /\ a.metadata_source = b.metadata_source

C17_StableId ==
  (id_pc = "computed" /\ DOC_ID_FIELDS = <<>>) =>
    /\ (id_a.content = id_b.content /\ SameButDocId(id_a, id_b)) => id_out[1] = id_out[2]
    /\ (id_a.content # id_b.content /\ SameButDocId(id_a, id_b)) => id_out[1] # id_out[2]
    /\ id_out[1].kind = "doc"

C17_Witness ==
  /\ id_pc = "computed" /\ DOC_ID_FIELDS = <<>>
  /\ id_a.content = "alpha" /\ id_b.content = "beta"
  /\ id_a.metadata = id_b.metadata
  /\ id_a.metadata_source = id_b.metadata_source
  /\ Has(id_a.metadata, "extra")
  /\ id_out[1] # id_out[2]

(* C18: with configured ID fields, an input whose metadata has all of them  *)
(* gets the ID of the field values alone, joined in the configured order:   *)
(* two such inputs with the same values at the fields have the same ID,     *)
(* whatever their content and other metadata, and with different values     *)
(* different IDs; an input that lacks a configured field gets the ID of the *)
(* namespace strategy.                                                      *)
HasAll(fields, m) == \A i \in DOMAIN fields : Has(m, fields[i])

SameAt(fields, m, n) == \A i \in DOMAIN fields : m[fields[i]] = n[fields[i]]

C19_RejectAtConstruction == dimension <= 0 => em_log = <<>>

(* C20: every vector an embed call of the client returns, from the primary  *)
(* model or from the fallback, has the length of the client's configured    *)
(* dimension.                                                               *)
C20_FixedDimension ==
  \A i \in DOMAIN em_log :
    \A k \in DOMAIN em_log[i].vectors :
      em_log[i].vectors[k].len = dimension

(* C24: within an upsert call the ID of every document is computed before   *)
(* the first network call of the call: once a request has been issued, the  *)
(* IDs of all documents of the call are there.                              *)
C24_IdsBeforeNetwork ==
  net # <<>> => (Len(doc_ids) = Len(docs) /\ doc_ids # <<>>)

(* C25: the batches of a call are processed one after the other in input    *)
(* order: batch k of the writes and of the embeddings is the k-th slice,    *)
(* every batch before the last attempted one was written successfully       *)
(* before the next was embedded, the written batches are a prefix of the    *)
(* batch sequence, and the backend holds exactly that prefix.               *)
C25_SequentialBatches ==
  LET size == UPSERT_BATCH_SIZE
      done == SelectSeq(upsert_calls, LAMBDA c : c.ok)
  IN /\ \A k \in DOMAIN upsert_calls :
          /\ upsert_calls[k].ids = Slice(ids_to_upsert, (k - 1) * size, size)
          /\ upsert_calls[k].documents = Slice(docs_to_upsert, (k - 1) * size, size)
          /\ k < Len(upsert_calls) => upsert_calls[k].ok
     /\ \A k \in DOMAIN embed_calls :
          embed_calls[k] = Slice(docs_to_upsert, (k - 1) * size, size)
     /\ Len(embed_calls) = Len(upsert_calls) + (IF pc = "write" THEN 1 ELSE 0)
     /\ pc \in {"embed", "write"} => offset = Len(done) * size
     /\ pc \in {"embed", "write", "done", "raised"} /\ collection_id # "" =>
          store[collection_id] =
            StoreAll(backend0.store[collection_id], ConcatIds(done),
                     ConcatDocs(done), ConcatMetas(done))

C25_Witness ==
  /\ pc = "write"
  /\ Len(ids_to_upsert) = 3
  /\ UPSERT_BATCH_SIZE = 1
  /\ Len(upsert_calls) = 2
  /\ upsert_calls[2].ok
  /\ Len(embed_calls) = 3

----------------------------------------------------------------------------
(* generate_embedding, embeddings.py 53-77 *)

MaxGen == 2

(* embeddings.py 68: idx.to_bytes(2, "little") *)
INDEX_BYTES == 2

(* int.to_bytes raises OverflowError when the value needs more bytes *)
fits_index(idx) == idx < 2 ^ (8 * INDEX_BYTES)

(* the space-separated words of the texts *)
Words == {"alpha", "Alpha", "beta", "!!"}

GenTexts == {<<>>} \cup {<<w>> : w \in Words} \cup {<<w, v>> : w, v \in Words}

GenDims == {0, 1, 2 ^ (8 * INDEX_BYTES), 2 ^ (8 * INDEX_BYTES) + 1}

(* str.lower on a word *)
lower(word) == IF word = "Alpha" THEN "alpha" ELSE word

(* line 59: re.findall(r"[\w-]+", text.lower()); a word of punctuation      *)
(* holds no token                                                           *)
RECURSIVE findall(_)
findall(text) ==
  IF text = <<>> THEN <<>>
  ELSE LET word == lower(Head(text))
       IN (IF word = "!!" THEN <<>> ELSE <<word>>) \o findall(Tail(text))

(* line 59: ... or ["__empty__"] *)
tokens_of(text) ==
  IF findall(text) = <<>> THEN <<"__empty__">> ELSE findall(text)

(* line 60: Counter(tokens) *)
Counter(tokens) ==
  [t \in {tokens[i] : i \in DOMAIN tokens} |->
     Cardinality({i \in DOMAIN tokens : tokens[i] = t})]

(* lines 56-77: the vector is determined by the token counts and the        *)
(* dimension; every token is hashed with every index below the dimension,   *)
(* the index in INDEX_BYTES bytes                                           *)
generate_embedding(text, dim) ==
  IF dim <= 0 THEN [raised |-> "ValueError", len |-> 0, token_counts |-> EmptyMap]
  ELSE IF ~ fits_index(dim - 1)
  THEN [raised |-> "OverflowError", len |-> 0, token_counts |-> EmptyMap]
  ELSE [raised |-> "none", len |-> dim, token_counts |-> Counter(tokens_of(text))]

InitFallback == fb_log = <<>>

Generate(text, dim) ==
  /\ Len(fb_log) < MaxGen
  /\ fb_log' = Append(fb_log, [text |-> text, dimension |-> dim,
                               result |-> generate_embedding(text, dim)])
  /\ UNCHANGED <<config, backend, upsert_vars, provider, last_op, request_vars,
                 chunk_vars, embed_vars, status_vars, ident_vars, select_vars,
                 ensure_vars, iter_vars, shared_vars, count_vars, qdrant_vars>>

CallGenerate == \E text \in GenTexts, dim \in GenDims : Generate(text, dim)

NextFallback == CallGenerate

(* every group of an earlier operation is idle *)
InitQuiet ==
  /\ InitIdle
  /\ EXISTING_ID_BATCH_SIZE = MaxCheckBatch
  /\ RequestOff
  /\ ExistingOff
  /\ EmbedOff
  /\ StatusOff
  /\ IdsOff

InitFallbackLoop ==
  InitQuiet /\ InitFallback /\ SelectOff /\ EnsureOff /\ IterOff /\ Alone
    /\ CountOff /\ QdrantOff

SpecFallback == InitFallbackLoop /\ [][NextFallback]_vars

(* C21: for every text and every dimension d > 0 generate_embedding returns *)
(* a vector of exactly d values, and two calls with the same text and       *)
(* dimension return equal vectors whatever was called in between            *)
C21_FallbackTotal ==
  /\ \A k \in DOMAIN fb_log :
       fb_log[k].dimension > 0 =>
         /\ fb_log[k].result.raised = "none"
         /\ fb_log[k].result.len = fb_log[k].dimension
  /\ \A j, k \in DOMAIN fb_log :
       (fb_log[j].text = fb_log[k].text /\ fb_log[j].dimension = fb_log[k].dimension)
         => fb_log[j].result = fb_log[k].result

----------------------------------------------------------------------------
(* CodexVectorClient._select_backend, lines 787-804 *)

Preferences == {"chroma", "qdrant", "auto", "Qdrant"}

Urls == {"http://127.0.0.1:8000", "http://127.0.0.1:6333", "http://Qdrant:8000"}

Profiles == {"", "production", "Production", "staging"}

(* str.lower on the settings above *)
lower_setting(text) ==
  CASE text = "http://Qdrant:8000" -> "http://qdrant:8000"
    [] text = "Production" -> "production"
    [] OTHER -> text

(* lines 796 and 799: "6333" in target or "qdrant" in target *)
has_marker(target) == target \in {"http://127.0.0.1:6333", "http://qdrant:8000"}

(* lines 788-804; the environment settings MINDSTACK_PROFILE and            *)
(* CODEX_VECTOR_BASE_URL are "" when they are not set                       *)
select_backend(preference, base_url, profile, env_url) ==
  IF preference \in {"chroma", "qdrant"} THEN preference
  ELSE IF preference = "auto"
  THEN IF lower_setting(profile) = "production" THEN "qdrant"
       ELSE IF has_marker(lower_setting(base_url)) THEN "qdrant"
       ELSE IF lower_setting(env_url) # "" /\ has_marker(lower_setting(env_url))
       THEN "qdrant"
       ELSE "chroma"
  ELSE "chroma"

InitSelect ==
  /\ sel_pc = "ready"
  /\ sel_in \in [preference : Preferences, base_url : Urls, profile : Profiles,
                 env_url : {""} \cup Urls]
  /\ sel_out = ""

SelectBackend ==
  /\ sel_pc = "ready"
  /\ sel_out' = select_backend(sel_in.preference, sel_in.base_url,
                               sel_in.profile, sel_in.env_url)
  /\ sel_pc' = "done"
  /\ UNCHANGED <<sel_in, config, backend, upsert_vars, provider, last_op,
                 request_vars, chunk_vars, embed_vars, status_vars, ident_vars,
                 fallback_vars, ensure_vars, iter_vars, shared_vars, count_vars, qdrant_vars>>

NextSelect == SelectBackend

InitSelectLoop ==
  InitQuiet /\ InitSelect /\ FallbackOff /\ EnsureOff /\ IterOff /\ Alone
    /\ CountOff /\ QdrantOff

SpecSelect == InitSelectLoop /\ [][NextSelect]_vars

(* C22: an explicit preference of chroma or qdrant is returned unchanged;   *)
(* with preference auto, qdrant is selected exactly when the production     *)
(* profile is set or the endpoint URL contains the port or the keyword of   *)
(* that backend, and chroma otherwise                                       *)
C22_SelectionPolicy ==
  sel_pc = "done" =>
    /\ sel_in.preference \in {"chroma", "qdrant"} => sel_out = sel_in.preference
    /\ sel_in.preference = "auto" =>
         sel_out = (IF \/ sel_in.profile \in {"production", "Production"}
                       \/ sel_in.base_url \in {"http://127.0.0.1:6333", "http://Qdrant:8000"}
                    THEN "qdrant" ELSE "chroma")

----------------------------------------------------------------------------
(* ensure_collection called by two client instances for one name.  Each     *)
(* request of an instance is a step; the backend answers each request from  *)
(* its state at that moment and refuses to create a name it holds.          *)

Clients == {1, 2}

EnsureName == "demo"

InitEnsure ==
  /\ en_backend \in {"chroma", "qdrant"}
  /\ en_exists = FALSE
  /\ en_pc = <<"lookup", "lookup">>
  /\ en_ret = <<"", "">>
  /\ en_net = <<>>

Sent(c, op, outcome) == [client |-> c, op |-> op, outcome |-> outcome]

(* after the lookup found the name absent: _ChromaBackend.ensure_collection *)
(* posts the create request (205), _QdrantBackend.create_collection asks    *)
(* collection_exists once more (396-397, 390)                               *)
after_absent(adapter) == IF adapter = "chroma" THEN "create" ELSE "recheck"

(* lines 201-204 and 396: the lookup *)
ClientLookup(c) ==
  /\ en_pc[c] = "lookup"
  /\ \/ /\ en_exists
        /\ en_net' = Append(en_net, Sent(c, "list", "found"))
        /\ en_pc' = [en_pc EXCEPT ![c] = "done"]
        /\ en_ret' = [en_ret EXCEPT ![c] = EnsureName]
     \/ /\ ~ en_exists
        /\ en_net' = Append(en_net, Sent(c, "list", "absent"))
        /\ en_pc' = [en_pc EXCEPT ![c] = after_absent(en_backend)]
        /\ en_ret' = en_ret
     \/ /\ en_net' = Append(en_net, Sent(c, "list", "transport"))
        /\ en_pc' = [en_pc EXCEPT ![c] = "raised"]
        /\ en_ret' = en_ret
  /\ UNCHANGED <<en_backend, en_exists>>
  /\ UNCHANGED <<config, backend, upsert_vars, provider, last_op, request_vars,
                 chunk_vars, embed_vars, status_vars, ident_vars, fallback_vars,
                 select_vars, iter_vars, shared_vars, count_vars, qdrant_vars>>

(* line 390: _QdrantBackend.create_collection creates only what it does not *)
(* find; 398: ensure_collection returns the name                            *)
ClientRecheck(c) ==
  /\ en_pc[c] = "recheck"
  /\ \/ /\ en_exists
        /\ en_net' = Append(en_net, Sent(c, "list", "found"))
        /\ en_pc' = [en_pc EXCEPT ![c] = "done"]
        /\ en_ret' = [en_ret EXCEPT ![c] = EnsureName]
     \/ /\ ~ en_exists
        /\ en_net' = Append(en_net, Sent(c, "list", "absent"))
        /\ en_pc' = [en_pc EXCEPT ![c] = "create"]
        /\ en_ret' = en_ret
     \/ /\ en_net' = Append(en_net, Sent(c, "list", "transport"))
        /\ en_pc' = [en_pc EXCEPT ![c] = "raised"]
        /\ en_ret' = en_ret
  /\ UNCHANGED <<en_backend, en_exists>>
  /\ UNCHANGED <<config, backend, upsert_vars, provider, last_op, request_vars,
                 chunk_vars, embed_vars, status_vars, ident_vars, fallback_vars,
                 select_vars, iter_vars, shared_vars, count_vars, qdrant_vars>>

(* lines 191-198 and 205-206, 391-393 and 398: the create request; its      *)
(* error is not caught                                                      *)
ClientCreate(c) ==
  /\ en_pc[c] = "create"
  /\ \/ /\ ~ en_exists
        /\ en_exists' = TRUE
        /\ en_net' = Append(en_net, Sent(c, "create", "created"))
        /\ en_pc' = [en_pc EXCEPT ![c] = "done"]
        /\ en_ret' = [en_ret EXCEPT ![c] = EnsureName]
     \/ /\ en_exists
        /\ en_net' = Append(en_net, Sent(c, "create", "conflict"))
        /\ en_pc' = [en_pc EXCEPT ![c] = "raised"]
        /\ UNCHANGED <<en_exists, en_ret>>
     \/ /\ en_net' = Append(en_net, Sent(c, "create", "transport"))
        /\ en_pc' = [en_pc EXCEPT ![c] = "raised"]
        /\ UNCHANGED <<en_exists, en_ret>>
  /\ UNCHANGED en_backend
  /\ UNCHANGED <<config, backend, upsert_vars, provider, last_op, request_vars,
                 chunk_vars, embed_vars, status_vars, ident_vars, fallback_vars,
                 select_vars, iter_vars, shared_vars, count_vars, qdrant_vars>>

NextEnsure ==
  \/ \E c \in Clients : ClientLookup(c)
  \/ \E c \in Clients : ClientRecheck(c)
  \/ \E c \in Clients : ClientCreate(c)

InitEnsureLoop ==
  InitQuiet /\ InitEnsure /\ FallbackOff /\ SelectOff /\ IterOff /\ Alone
    /\ CountOff /\ QdrantOff

SpecEnsure == InitEnsureLoop /\ [][NextEnsure]_vars

----------------------------------------------------------------------------
(* _ChromaBackend.iter_metadata, lines 276-291, drained by its caller.  The *)
(* collection is a sequence of entries in the backend's order; the entry of *)
(* a document stored without metadata is null (dict is FALSE).              *)

MaxStored == 4

Stored(n, dicts) == [k \in 1..n |-> [doc |-> k, dict |-> dicts[k]]]

StoredLists ==
  UNION {{Stored(n, dicts) : dicts \in [1..n -> BOOLEAN]} : n \in 0..MaxStored}

InitIter ==
  /\ it_pc = "request"
  /\ it_coll \in StoredLists
  /\ it_batch \in 1..MaxPage
  /\ it_offset = 0
  /\ it_out = <<>>
  /\ it_net = <<>>

(* the backend's answer to the get request: `limit` entries from `offset` *)
page_of(coll, from, limit) == Slice(coll, from, limit)

(* _extract_metadatas, lines 293-307: the entries that are maps *)
extract_metadatas(metadatas) == SelectSeq(metadatas, LAMBDA meta : meta.dict)

(* lines 278-291: one turn of the loop, or the request raises *)
IterRequest ==
  /\ it_pc = "request"
  /\ it_net' = Append(it_net, it_offset)
  /\ \/ LET metadatas == extract_metadatas(page_of(it_coll, it_offset, it_batch))
        IN IF metadatas = <<>>
           THEN /\ it_pc' = "done"
                /\ UNCHANGED <<it_out, it_offset>>
           ELSE /\ it_out' = it_out \o metadatas
                /\ IF Len(metadatas) < it_batch
                   THEN it_pc' = "done" /\ it_offset' = it_offset
                   ELSE it_pc' = "request" /\ it_offset' = it_offset + it_batch
     \/ /\ it_pc' = "raised"
        /\ UNCHANGED <<it_out, it_offset>>
  /\ UNCHANGED <<it_coll, it_batch>>
  /\ UNCHANGED <<config, backend, upsert_vars, provider, last_op, request_vars,
                 chunk_vars, embed_vars, status_vars, ident_vars, fallback_vars,
                 select_vars, ensure_vars, shared_vars, count_vars, qdrant_vars>>

(* line 277: a new call starts at offset 0 *)
IterAgain ==
  /\ it_pc \in {"done", "raised"}
  /\ it_pc' = "request"
  /\ it_offset' = 0
  /\ it_out' = <<>>
  /\ it_net' = <<>>
  /\ UNCHANGED <<it_coll, it_batch>>
  /\ UNCHANGED <<config, backend, upsert_vars, provider, last_op, request_vars,
                 chunk_vars, embed_vars, status_vars, ident_vars, fallback_vars,
                 select_vars, ensure_vars, shared_vars, count_vars, qdrant_vars>>

NextIter ==
  \/ IterRequest
  \/ IterAgain

InitIterLoop ==
  InitQuiet /\ InitIter /\ FallbackOff /\ SelectOff /\ EnsureOff /\ Alone
    /\ CountOff /\ QdrantOff

SpecIter == InitIterLoop /\ [][NextIter]_vars

(* the IDs stored in a collection *)
StoredIn(st, name) == DOMAIN st[name]

(* C23: no operation of the client removes a collection or a stored         *)
(* document ID: the collections and, per collection, the stored IDs only    *)
(* grow                                                                     *)
C23_OnlyGrows ==
  [][/\ collections \subseteq collections'
     /\ \A name \in Names : StoredIn(store, name) \subseteq StoredIn(store', name)]_vars

C23_Witness ==
  /\ last_op.op = "ensure_collection"
  /\ last_op.outcome = "ok"
  /\ last_op.name = "notes"
  /\ Len(last_op.net) = 2
  /\ collections = OpNames
  /\ callNo = 2
  /\ pc = "done"
  /\ \E name \in Names : Cardinality(StoredIn(store, name)) >= 2

(* upsert writes only into a collection that exists, after its lookup found *)
(* it or its create request created it                                      *)
WriteAfterCollection ==
  /\ \A name \in Names : store[name] # EmptyMap => name \in collections
  /\ upsert_calls # <<>> =>
       /\ collection_id \in collections
       /\ net[1] = Request("list", 0)
       /\ \/ collection_id \in backend0.collections
          \/ /\ args.create_collection
             /\ net[2] = Request("create", 0)
             /\ \E k \in DOMAIN created :
                  created[k] = [name |-> collection_id, ok |-> TRUE]

(* an ensure_collection call that has looked up a name that exists *)
EnsureOfExisting ==
  /\ last_op.op = "none"
  /\ last_op'.op = "ensure_collection"
  /\ last_op'.name \in collections
  /\ last_op'.outcome # "transport"

EnsureFound ==
  EnsureOfExisting =>
    /\ last_op'.outcome = "ok"
    /\ last_op'.net = <<Request("list", 0)>>
    /\ last_op'.id = last_op'.name
    /\ UNCHANGED <<collections, created>>

(* C28 as stated: the collection exists before the first write of upsert;   *)
(* ensure_collection of an existing name issues no create request and       *)
(* returns its id; the ensure_collection calls of one caller issue at most  *)
(* one create request per name                                              *)
C28_OneCreateRequest ==
  /\ [](WriteAfterCollection
        /\ \A j, k \in DOMAIN created : j # k => created[j].name # created[k].name)
  /\ [][EnsureFound]_vars

(* C28, amended: ... the ensure_collection calls of one caller create a     *)
(* name at most once: a create request is issued only while the name is     *)
(* absent, so it is issued again only after a create request that failed    *)
C28_CreatedOnce ==
  /\ [](WriteAfterCollection
        /\ \A j, k \in DOMAIN created :
             (j < k /\ created[j].name = created[k].name) => ~ created[j].ok)
  /\ [][EnsureFound]_vars

C28_Witness ==
  /\ last_op.op = "ensure_collection"
  /\ last_op.outcome = "ok"
  /\ last_op.net = <<Request("list", 0)>>
  /\ Len(created) = 2
  /\ ~ created[1].ok
  /\ created[2] = [name |-> last_op.name, ok |-> TRUE]
  /\ created[1].name = last_op.name
  /\ upsert_calls # <<>>
  /\ store[last_op.name] # EmptyMap

(* the requests of a kind in a sequence of requests *)
RequestsOf(requests, op) == SelectSeq(requests, LAMBDA r : r.op = op)

(* what a query_results call that has returned a list has done *)
QueryDelegated ==
  (last_op.op = "query_results" /\ last_op.outcome = "ok") =>
    /\ last_op.net = <<Request("list", 0), Request("query", last_op.query.limit)>>
    /\ Len(last_op.embeds) = 1
    /\ last_op.embeds[1].text = last_op.query.text
    /\ last_op.results = last_op.adapter
    /\ Len(last_op.results) <= last_op.query.limit

(* a query_results call, returned or raised, sends nothing but its lookup   *)
(* and at most one query, and embeds at most once                           *)
QueryReadOnly ==
  last_op.op = "query_results" =>
    /\ \A k \in DOMAIN last_op.net : last_op.net[k].op \in {"list", "query"}
    /\ Len(RequestsOf(last_op.net, "query")) <= 1
    /\ Len(last_op.embeds) <= 1

(* C27: query_results resolves the collection, embeds the query text        *)
(* exactly once, issues exactly one adapter query with the given limit and  *)
(* returns the adapter's result list unchanged; it writes nothing, creates  *)
(* no collection and leaves the backend state unchanged                     *)
C27_QueryPassThrough ==
  /\ [](QueryDelegated /\ QueryReadOnly)
  /\ [][(last_op'.op = "query_results" /\ last_op.op = "none")
          => UNCHANGED <<collections, store, created>>]_vars

C27_Witness ==
  /\ last_op.op = "query_results"
  /\ last_op.outcome = "ok"
  /\ Len(last_op.results) = 2
  /\ last_op.query.limit = 2
  /\ Cardinality(DOMAIN store[last_op.name]) > 2
  /\ last_op.results[1].document # last_op.results[2].document
  /\ last_op.results[2].distance = 2
  /\ last_op.results[1].metadata # EmptyMap

(* C26: the existing-ID snapshot that decided which documents of a batch    *)
(* are written was taken immediately before the batch's write, after the    *)
(* batch before it: under the skip policy, with another instance writing    *)
(* into the same collection, a batch writes no ID that the other instance   *)
(* had stored before the batch before it was sent                           *)
C26_FreshSnapshot ==
  \A n \in DOMAIN upsert_calls :
    upsert_calls[n].ok =>
      \A k \in DOMAIN upsert_calls[n].ids, j \in DOMAIN others :
        (others[j].call = callNo /\ others[j].id = upsert_calls[n].ids[k])
          => others[j].at >= n - 1

(* C29: for any interleaving of the ensure_collection calls of two          *)
(* instances for the same absent name, at most one create request is        *)
(* issued for the name, and the two calls return the same collection id     *)
(* (neither is refused by the backend)                                      *)
C29_OneCreateUnderRace ==
  /\ Len(RequestsOf(en_net, "create")) <= 1
  /\ \A k \in DOMAIN en_net : en_net[k].outcome # "conflict"
  /\ (en_pc[1] = "done" /\ en_pc[2] = "done") => en_ret[1] = en_ret[2]

(* C30: over a collection of N documents and for every batch size B >= 1    *)
(* iter_metadata requests the pages at offsets 0, B, 2B, ..., each call     *)
(* from offset 0; when it has ended it has issued N \div B + 1 requests and *)
(* yielded the metadata of every document (that has any) once, in the       *)
(* backend's order                                                          *)
C30_Paging ==
  /\ \A k \in DOMAIN it_net : it_net[k] = (k - 1) * it_batch
  /\ Len(it_net) <= (Len(it_coll) \div it_batch) + 1
  /\ it_pc = "done" =>
       /\ Len(it_net) = (Len(it_coll) \div it_batch) + 1
       /\ it_out = SelectSeq(it_coll, LAMBDA entry : entry.dict)

(* the input index of the i-th entry of the k-th write call *)
InputIndex(k, i) == idxs_to_upsert[(k - 1) * UPSERT_BATCH_SIZE + i]

(* C34: in every backend write call of upsert the ids, documents and        *)
(* metadatas have the same length and are index-aligned: the i-th id is the *)
(* ID computed for the i-th document of the call and the i-th metadata is   *)
(* the metadata prepared for that input document, after filtering and       *)
(* slicing                                                                  *)
C34_Aligned ==
  \A k \in DOMAIN upsert_calls :
    LET call == upsert_calls[k]
    IN /\ call.ids # <<>>
       /\ Len(call.ids) = Len(call.documents)
       /\ Len(call.ids) = Len(call.metadatas)
       /\ \A i \in DOMAIN call.ids :
            LET j == InputIndex(k, i)
                p == prepared_of(DOC_ID_FIELDS, j - 1, docs[j],
                                 args.metadata_source, args.metadata_items)
            IN /\ call.documents[i] = docs[j]
               /\ call.ids[i] = p.id
               /\ call.metadatas[i] = p.meta
               /\ (i > 1 => InputIndex(k, i - 1) < j)

C34_Witness ==
  /\ Len(upsert_calls) = 2
  /\ upsert_calls[2].ok
  /\ skipped > 0
  /\ idxs_to_upsert[1] > 1
  /\ upsert_calls[1].metadatas # upsert_calls[2].metadatas

(* the caller's metadata supplies neither a position nor a doc_id *)
PlainMetadata(a) ==
  \A i \in DOMAIN a.metadata_items.items :
    /\ ~ Has(a.metadata_items.items[i], "position")
    /\ ~ Has(a.metadata_items.items[i], "doc_id")

(* the call re-submits the two different documents of the previous call in  *)
(* the other order                                                          *)
Reordered ==
  /\ prev.some
  /\ Len(docs) = 2
  /\ docs[1] # docs[2]
  /\ args = SwapDocs(prev.args)
  /\ NonEmpty(prev.args.documents) = <<docs[2], docs[1]>>

(* C37: with no doc_id and no position in the caller's metadata and no ID   *)
(* fields configured, the ID of a document depends on its index among the   *)
(* non-empty documents: the index is the position metadata in the hashed    *)
(* namespace, the same content at two indexes has two IDs, and under the    *)
(* skip policy the documents of the previous call re-submitted in another   *)
(* order are written again                                                  *)
C37_IndexInId ==
  (DOC_ID_FIELDS = <<>> /\ PlainMetadata(args)) =>
    /\ \A i \in DOMAIN doc_ids :
         /\ doc_ids[i].kind = "doc"
         /\ doc_ids[i].ns.kind = "json"
         /\ doc_ids[i].ns.meta["position"] = i - 1
         /\ \A j \in DOMAIN doc_ids : i # j => doc_ids[i] # doc_ids[j]
    /\ (/\ ~ OVERWRITE_EXISTING
        /\ Reordered
        /\ prev.outcome = "done"
        /\ pc = "done"
        /\ Range(doc_ids) \cap DOMAIN prev.before.store[args.name_or_id] = {})
         => /\ Range(doc_ids) \cap Range(ConcatIds(prev.upsert_calls)) = {}
            /\ message.kind = "upserted"
            /\ skipped = 0
            /\ ConcatIds(upsert_calls) = doc_ids
            /\ ConcatDocs(upsert_calls) = docs

C37_Witness ==
  /\ DOC_ID_FIELDS = <<>> /\ PlainMetadata(args)
  /\ ~ OVERWRITE_EXISTING
  /\ Reordered
  /\ prev.outcome = "done"
  /\ Len(ConcatIds(prev.upsert_calls)) = 2
  /\ pc = "done"
  /\ message.kind = "upserted"
  /\ Cardinality(DOMAIN store[args.name_or_id]) = 4

(* C35: every metadata map upsert passes to the backend has a position      *)
(* entry and a doc_id entry, and the doc_id entry is the ID under which the *)
(* document is written, whatever metadata the caller supplied               *)
C35_DocIdInMetadata ==
  id_pc = "prepared" =>
    \A k \in DOMAIN id_out :
      /\ Has(id_out[k].meta, "position")
      /\ Has(id_out[k].meta, "doc_id")
      /\ id_out[k].meta["doc_id"] = id_out[k].id

(* the caller's input of the k-th document of the call *)
InputOf(k) == IF k = 1 THEN id_a ELSE id_b

HoldsDocId(a) ==
  Has(a.metadata, "doc_id") /\ IsNonEmptyStr(a.metadata["doc_id"])

ForgetDocId(a) == [a EXCEPT !.metadata = Without(a.metadata, "doc_id")]

(* the ID the call computes for the k-th document once the "doc_id" entries *)
(* are taken out of the caller's metadata                                   *)
IdWithoutDocId(k) ==
  prepared_of(DOC_ID_FIELDS, k - 1, InputOf(k).content, InputOf(k).metadata_source,
              ItemsOf(ForgetDocId(id_a), ForgetDocId(id_b))).id

Verbatim(k) == id_out[k].id = InputOf(k).metadata["doc_id"]

SameSuppliedSameId ==
  (HoldsDocId(id_a) /\ HoldsDocId(id_b)
     /\ id_a.metadata["doc_id"] = id_b.metadata["doc_id"])
    => id_out[1].id = id_out[2].id

(* C36 as stated: a non-empty string under "doc_id" is the document ID      *)
(* verbatim, so equal supplied doc_ids address one stored document whatever *)
(* the content; otherwise the "doc_id" entry never influences the ID        *)
C36_DocIdVerbatim ==
  id_pc = "prepared" =>
    /\ \A k \in DOMAIN id_out :
         IF HoldsDocId(InputOf(k)) THEN Verbatim(k)
         ELSE id_out[k].id = IdWithoutDocId(k)
    /\ SameSuppliedSameId

(* C36 amended: a non-empty string under "doc_id" is the document ID        *)
(* verbatim; otherwise the "doc_id" entry does not influence the ID unless  *)
(* "doc_id" is itself one of the configured ID fields                       *)
C36_DocIdUnlessConfigured ==
  id_pc = "prepared" =>
    /\ \A k \in DOMAIN id_out :
         IF HoldsDocId(InputOf(k)) THEN Verbatim(k)
         ELSE "doc_id" \notin Range(DOC_ID_FIELDS) => id_out[k].id = IdWithoutDocId(k)
    /\ SameSuppliedSameId

C36_Witness ==
  /\ id_pc = "prepared"
  /\ HoldsDocId(id_a)
  /\ HoldsDocId(id_b)
  /\ id_a.metadata["doc_id"] = id_b.metadata["doc_id"]
  /\ id_a.content # id_b.content
  /\ id_a.metadata # id_b.metadata
  /\ id_out[1].id = id_out[2].id
  /\ id_out[1].id = RawId("mine")

MalformedAt(i) == rq_events[i] = AttemptEvent("not_json")

(* C32: a response whose body cannot be parsed is handled as a transport    *)
(* error: the attempt is followed by the delay and another attempt while    *)
(* attempts remain, no value is returned for it, and when every attempt     *)
(* gave such a body the request raises after the configured attempts        *)
C32_MalformedRetried ==
  /\ \A i \in DOMAIN rq_events :
       (MalformedAt(i) /\ i < Len(rq_events)) =>
         rq_events[i + 1] = SleepEvent(Max(1, HTTP_RETRY_DELAY))
  /\ (rq_events # <<>> /\ MalformedAt(Len(rq_events))) =>
       /\ rq_pc # "returned"
       /\ rq_result = "none"
  /\ (rq_pc = "raised" /\ \A i \in DOMAIN rq_events :
                             rq_events[i].kind = "attempt" => MalformedAt(i)) =>
       Len(AttemptsIn(rq_events)) = Max(1, HTTP_RETRIES)

IsCount(body) ==
  body.type = "int" \/ (body.type = "object" /\ body.has_count /\ body.numeric)

(* C33: collection_count returns the integer count when the count response  *)
(* is a bare integer and when it is an object holding the integer under     *)
(* "count", and raises for neither                                          *)
C33_CountBothShapes ==
  (cnt_pc \in {"returned", "raised"} /\ rq_pc = "returned"
     /\ rq_result = "parsed_body" /\ IsCount(cnt_body)) =>
    /\ cnt_pc = "returned"
    /\ cnt_ret = cnt_body.value
    /\ cnt_error = "none"

(* the arguments with which the point was written *)
WrittenAs(id) == qd_in[CHOOSE i \in DOMAIN qd_in : qd_in[i].id = id]

StoredWithDocument ==
  \A i \in DOMAIN qd_in :
    LET payload == qd_points[qd_in[i].id]
        m == qd_in[i].metadata
    IN /\ DOMAIN payload = DOMAIN m \cup {"document"}
       /\ payload["document"] = qd_in[i].document
       /\ \A key \in DOMAIN m \ {"document"} : payload[key] = m[key]

QueryGivesBack ==
  \A k \in DOMAIN qd_out :
    /\ qd_out[k].document = WrittenAs(qd_out[k].of).document
    /\ qd_out[k].metadata = WrittenAs(qd_out[k].of).metadata

IterGivesBack ==
  \A k \in DOMAIN qd_out :
    LET m == WrittenAs(qd_out[k].of).metadata
    IN /\ ~Has(qd_out[k].metadata, "document")
       /\ \A key \in DOMAIN m \ {"document"} :
            Has(qd_out[k].metadata, key) /\ qd_out[k].metadata[key] = m[key]

(* C31: a point written by _QdrantBackend.upsert with text t and metadata m *)
(* is stored as m plus a "document" entry holding t; query gives back       *)
(* document = t and metadata = m, and iter_metadata the metadata without a  *)
(* "document" entry, for every metadata map m                               *)
C31_RoundTrip ==
  /\ qd_pc \in {"stored", "read"} => StoredWithDocument
  /\ qd_read = "query" => QueryGivesBack
  /\ qd_read = "iter_metadata" => IterGivesBack

====
